---- MODULE Spec2Model ----
(***************************************************************************)
(* Model of the quantization-parameter propagation driver                  *)
(* (tensorflow/compiler/mlir/lite/quantization/quantization_driver.cc).    *)
(*                                                                         *)
(* The function being quantized is a single block of operations.  Indices  *)
(* of operands, results and states are 1-based here (0-based in the C++).  *)
(* Quantization parameters are per-tensor uniform types: a rational scale  *)
(* sn/sd in lowest terms, a zero point and a storage width.                *)
(***************************************************************************)
EXTENDS Integers, Sequences, FiniteSets, TLC

(***************************************************************************)
(* Bounds of the model.                                                    *)
(***************************************************************************)
\* number of complete Run() calls made on one function
MaxRuns == 2
\* the iterations of the loop of Propagate are counted up to MaxIters
MaxIters == 40

(***************************************************************************)
(* Quantization parameters (QuantParams = quant::QuantizedType).           *)
(***************************************************************************)
RECURSIVE Gcd(_, _)
Gcd(a, b) == IF b = 0 THEN a ELSE Gcd(b, a % b)

\* the null QuantizedType
NoParams == [sn |-> 0, sd |-> 1, zp |-> 0, w |-> 0]

\* UniformQuantizedType::getChecked: types are uniqued, so equal scales give
\* the equal type whatever the fraction they were computed from
QP(n, d, zp, w) ==
  LET g == Gcd(n, d) IN [sn |-> n \div g, sd |-> d \div g, zp |-> zp, w |-> w]

\* QuantState::IsEmpty
IsEmptyParams(p) == p = NoParams

INT32_MAX == 2147483647
kBiasMax == INT32_MAX \div 2

(***************************************************************************)
(* Values and types of the graph.                                          *)
(***************************************************************************)
Arg(i) == [k |-> "arg", o |-> i, i |-> 0]
Res(o, i) == [k |-> "res", o |-> o, i |-> i]
Use(o, i) == [op |-> o, idx |-> i]

\* tensor types: float elements, integer elements, quantized elements
TF == [e |-> "f", p |-> NoParams]
TI == [e |-> "i", p |-> NoParams]
TQ(p) == [e |-> "q", p |-> p]

\* quant::QuantizedType::getQuantizedElementType
getQuantizedElementType(t) == IF t.e = "q" THEN t.p ELSE NoParams

\* QuantizedType::castFromExpressedType: null (TI stands for "no type" is
\* never returned; the callers test IsExpressed first) unless t is float
IsExpressed(t) == t.e = "f"

\* QuantizedType::castToExpressedType is defined on quantized types only
HasExpressed(t) == t.e = "q"

(***************************************************************************)
(* Sequence helpers.                                                       *)
(***************************************************************************)
RECURSIVE SeqRemove(_, _)
SeqRemove(s, x) ==
  IF s = <<>> THEN <<>>
  ELSE IF Head(s) = x THEN SeqRemove(Tail(s), x)
  ELSE <<Head(s)>> \o SeqRemove(Tail(s), x)



IndexOf(s, x) == CHOOSE i \in 1..Len(s) : s[i] = x

InsertAt(s, pos, x) == SubSeq(s, 1, pos - 1) \o <<x>> \o SubSeq(s, pos, Len(s))

(***************************************************************************)
(* The graph: g.ops[id] is an operation record, g.order the block order,   *)
(* g.args the argument types, g.uses[v] the use list of value v (MLIR      *)
(* inserts a new use at the head of the list).                             *)
(***************************************************************************)
NoContent == [fin |-> <<>>, maxabs |-> 0, wp |-> NoParams]

\* an operation with every attribute the driver and its adapters read
OpRec(kind, operands, rtypes) ==
  [kind |-> kind, operands |-> operands, rtypes |-> rtypes,
   quantizable |-> FALSE, same_scale |-> FALSE,
   has_fixed |-> FALSE, fixed |-> NoParams,
   biases |-> <<>>, affine |-> 0, coeff |-> <<>>,
   content |-> NoContent, volatile |-> FALSE]

EmptyGraph(argTypes) ==
  [ops |-> <<>>, order |-> <<>>, args |-> argTypes,
   uses |-> [v \in {Arg(i) : i \in 1..Len(argTypes)} |-> <<>>]]

ValueType(g, v) == IF v.k = "arg" THEN g.args[v.o] ELSE g.ops[v.o].rtypes[v.i]

\* Value::getDefiningOp: 0 stands for nullptr (block arguments)
DefiningOp(v) == IF v.k = "res" THEN v.o ELSE 0

\* the uses of the new operation's operands are linked in operand order
RECURSIVE LinkOperands(_, _, _, _)
LinkOperands(uses, id, operands, i) ==
  IF i > Len(operands) THEN uses
  ELSE LinkOperands([uses EXCEPT ![operands[i]] = <<Use(id, i)>> \o @],
                    id, operands, i + 1)

\* OpBuilder::create at position pos of the block
CreateOp(g, rec, pos) ==
  LET id == Len(g.ops) + 1
      newVals == {Res(id, i) : i \in 1..Len(rec.rtypes)}
      u0 == [v \in (DOMAIN g.uses) \cup newVals |->
               IF v \in DOMAIN g.uses THEN g.uses[v] ELSE <<>>]
  IN [g EXCEPT !.ops = Append(@, rec),
               !.order = InsertAt(@, pos, id),
               !.uses = LinkOperands(u0, id, rec.operands, 1)]

NewOpId(g) == Len(g.ops) + 1
PosBefore(g, id) == IndexOf(g.order, id)
PosAfter(g, id) == IndexOf(g.order, id) + 1

\* OpOperand::set / Operation::setOperand
SetOperand(g, id, idx, v) ==
  LET old == g.ops[id].operands[idx]
      u1 == [g.uses EXCEPT ![old] = SeqRemove(@, Use(id, idx))]
      u2 == [u1 EXCEPT ![v] = <<Use(id, idx)>> \o @]
  IN [g EXCEPT !.ops[id].operands[idx] = v, !.uses = u2]

\* Value::replaceAllUsesWith: every use of old, in list order, is set to new
RECURSIVE ReplaceAllUsesWith(_, _, _)
ReplaceAllUsesWith(g, old, new) ==
  IF g.uses[old] = <<>> \/ old = new THEN g
  ELSE LET u == Head(g.uses[old])
       IN ReplaceAllUsesWith(SetOperand(g, u.op, u.idx, new), old, new)

\* Operation::replaceUsesOfWith(from, to) on the operands of one operation
RECURSIVE ReplaceUsesOfWith(_, _, _, _, _)
ReplaceUsesOfWith(g, id, from, to, i) ==
  IF i > Len(g.ops[id].operands) THEN g
  ELSE IF g.ops[id].operands[i] = from
       THEN ReplaceUsesOfWith(SetOperand(g, id, i, to), id, from, to, i + 1)
       ELSE ReplaceUsesOfWith(g, id, from, to, i + 1)

hasOneUse(g, v) == Len(g.uses[v]) = 1

\* value.use_begin().getUser()
FirstUser(g, v) == Head(g.uses[v]).op

IsQuantizeCast(g, id) == g.ops[id].kind = "q"
IsDequantizeCast(g, id) == g.ops[id].kind = "dq"
IsConstantOp(g, id) == g.ops[id].kind = "cst"

(***************************************************************************)
(* The driver object.  A driver record d carries the graph and every       *)
(* member of QuantizationDriver, so that the methods below are operators   *)
(* from driver records to driver records.                                  *)
(*   states    std::vector<QuantState>          [params, immutable]        *)
(*   v2s       value_to_state_                  Value -> state index       *)
(*   opst      operand_states_                  (op, index) -> state index *)
(*   rest      result_states_                   (op, index) -> state index *)
(*   argst     arg_states_                      argument -> state index    *)
(*   resc      rescale_states_                  state index -> requantizes *)
(*   wl        work_list_      quantized  quantized_                       *)
(*   weights   weights_        optw       optimized_weights_               *)
(*   args      args_                                                       *)
(*   log       the assignments made by the current step (history only)     *)
(* Beside the members, the state machine keeps four more history           *)
(* variables: graph0 (the function as the current Run found it), states0   *)
(* (the states as Initialize left them), phases (the phases that have      *)
(* returned, over all the Runs) and loop (the number of operations         *)
(* SetupAllStates put on the work list, the iterations of the loop of      *)
(* PropagateParamsAndReturnIfChanged so far in the current Run, the        *)
(* operations a visit of the loop left out of quantized_ (deferred) and    *)
(* those a visit left in it (decided)).                                    *)
(***************************************************************************)
EmptyMap == [x \in {} |-> 0]

MapPut(m, k, v) == [x \in (DOMAIN m) \cup {k} |-> IF x = k THEN v ELSE m[x]]

NewDriver(g) ==
  [g |-> g, states |-> <<>>, v2s |-> EmptyMap, opst |-> EmptyMap,
   rest |-> EmptyMap, argst |-> EmptyMap, resc |-> <<>>,
   wl |-> <<>>, quantized |-> {}, weights |-> {}, optw |-> EmptyMap,
   args |-> <<>>, log |-> <<>>]

\* HasQuantParams is declared in quantization_driver.h.  Its use at lines 76
\* and 97 is `immutable = !HasQuantParams(params)`, documented at lines 56-59
\* as "the state is immutable if the type is a quantized type": it holds of
\* the null type.
HasQuantParams(p) == p = NoParams

\* variant that gives every Value the index of the first record
PushState_FirstIndex(d, value) ==
  LET params == getQuantizedElementType(ValueType(d.g, value))
      immutable == ~HasQuantParams(params)
  IN [d EXCEPT !.states = Append(@, [params |-> params, immutable |-> immutable]),
               !.resc = Append(@, <<>>),
               !.v2s = MapPut(@, value, 1)]

\* variant that creates every state mutable
PushState_Mutable(d, value) ==
  LET params == getQuantizedElementType(ValueType(d.g, value))
  IN [d EXCEPT !.states = Append(@, [params |-> params, immutable |-> FALSE]),
               !.resc = Append(@, <<>>),
               !.v2s = MapPut(@, value, Len(d.states) + 1)]

\* states->push_back({params, immutable}); the requantize list of a state
\* starts empty (rescale_states_ is default-constructed on first access)
PushState(d, value) ==
  LET params == getQuantizedElementType(ValueType(d.g, value))
      immutable == ~HasQuantParams(params)
  IN [d EXCEPT !.states = Append(@, [params |-> params, immutable |-> immutable]),
               !.resc = Append(@, <<>>),
               !.v2s = MapPut(@, value, Len(d.states) + 1)]

\* InitializeStateForValue without the lookup of lines 66-73
InitializeStateForValue_NoCache(d, op, index, value, as_result) ==
  LET d1 == PushState(d, value)
      si == d1.v2s[value]
  IN IF as_result THEN [d1 EXCEPT !.rest = MapPut(@, Use(op, index), si)]
     ELSE [d1 EXCEPT !.opst = MapPut(@, Use(op, index), si)]

InitializeStateForValue(d, op, index, value, as_result) ==
  LET d1 == IF value \in DOMAIN d.v2s THEN d ELSE PushState(d, value)
      si == d1.v2s[value]
  IN IF as_result THEN [d1 EXCEPT !.rest = MapPut(@, Use(op, index), si)]
     ELSE [d1 EXCEPT !.opst = MapPut(@, Use(op, index), si)]

InitializeArgState(d, arg, arg_value) ==
  LET d1 == IF arg_value \in DOMAIN d.v2s THEN d ELSE PushState(d, arg_value)
  IN [d1 EXCEPT !.argst = MapPut(@, arg, d1.v2s[arg_value])]

InitializeOperandState(d, op, index, value) ==
  InitializeStateForValue(d, op, index, value, FALSE)

InitializeResultState(d, op, index, value) ==
  InitializeStateForValue(d, op, index, value, TRUE)

\* accessors of quantization_driver.h: the state (requantize list) of the
\* index-th operand / result of op, or of an argument
GetOperandQuantState(d, op, index) == d.states[d.opst[Use(op, index)]]
GetResultQuantState(d, op, index) == d.states[d.rest[Use(op, index)]]
GetArgQuantState(d, arg) == d.states[d.argst[arg]]
GetOperandRequantizeStates(d, op, index) == d.resc[d.opst[Use(op, index)]]
GetResultRequantizeStates(d, op, index) == d.resc[d.rest[Use(op, index)]]
GetArgRequantizeStates(d, arg) == d.resc[d.argst[arg]]

(***************************************************************************)
(* The adapters: op_quant_spec_getter_ and op_quant_scale_spec_getter_     *)
(* read the attributes of the operation record.                            *)
(***************************************************************************)
BiasIndices(rec) == {rec.biases[j].b : j \in 1..Len(rec.biases)}

\* IsOpQuantizable (quantization_utils): constants are quantizable, casts
\* and terminators are not, other operations carry the trait or not
IsOpQuantizable(g, id) == g.ops[id].quantizable

(***************************************************************************)
(* Initialize: PreprocessConstantOps, then SetupAllStates.                 *)
(***************************************************************************)
\* variant without the test of the bias indices of line 496
IsWeightUse_NoBiasTest(g, u) ==
  /\ ~g.ops[u.op].same_scale
  /\ ~IsQuantizeCast(g, u.op)

\* the use is a weight: not a bias, no same-scale user, not a quantize op
IsWeightUse(g, u) ==
  /\ u.idx \notin BiasIndices(g.ops[u.op])
  /\ ~g.ops[u.op].same_scale
  /\ ~IsQuantizeCast(g, u.op)

\* variant that never duplicates a constant
PreprocessUses_NoDup(d, cst, uses, i) == [d EXCEPT !.weights = @ \cup {cst}]

\* variant without the test of the number of uses of line 513
RECURSIVE PreprocessUses_DupSingle(_, _, _, _)
PreprocessUses_DupSingle(d, cst, uses, i) ==
  IF i > Len(uses) THEN d
  ELSE
    LET u == uses[i]
        user == d.g.ops[u.op]
    IN IF IsWeightUse(d.g, u)
       THEN PreprocessUses_DupSingle(
              [d EXCEPT !.weights = @ \cup {cst},
                        !.optw = IF u.idx \in DOMAIN user.coeff /\ cst \notin DOMAIN @
                                 THEN MapPut(@, cst, user.coeff[u.idx]) ELSE @],
              cst, uses, i + 1)
       ELSE LET g1 == CreateOp(d.g, d.g.ops[cst], PosBefore(d.g, cst))
                g2 == SetOperand(g1, u.op, u.idx, Res(NewOpId(d.g), 1))
            IN PreprocessUses_DupSingle([d EXCEPT !.g = g2], cst, uses, i + 1)

\* the loop over the cached uses of one constant
RECURSIVE PreprocessUses(_, _, _, _)
PreprocessUses(d, cst, uses, i) ==
  IF i > Len(uses) THEN d
  ELSE
    LET u == uses[i]
        user == d.g.ops[u.op]
    IN IF IsWeightUse(d.g, u)
       THEN PreprocessUses(
              [d EXCEPT !.weights = @ \cup {cst},
                        !.optw = IF u.idx \in DOMAIN user.coeff /\ cst \notin DOMAIN @
                                 THEN MapPut(@, cst, user.coeff[u.idx]) ELSE @],
              cst, uses, i + 1)
       ELSE IF Len(uses) > 1
       THEN LET g1 == CreateOp(d.g, d.g.ops[cst], PosBefore(d.g, cst))
                g2 == SetOperand(g1, u.op, u.idx, Res(NewOpId(d.g), 1))
            IN PreprocessUses([d EXCEPT !.g = g2], cst, uses, i + 1)
       ELSE PreprocessUses(d, cst, uses, i + 1)

\* the walk callback for one arith::ConstantOp
PreprocessConstant(d, cst) ==
  LET rec == d.g.ops[cst]
  IN IF rec.rtypes[1].e # "f" THEN d
     ELSE IF Len(rec.content.fin) > 0 /\ ~rec.content.fin[1] THEN d
     ELSE PreprocessUses(d, cst, d.g.uses[Res(cst, 1)], 1)

RECURSIVE WalkConstants(_, _, _)
WalkConstants(d, ids, i) ==
  IF i > Len(ids) THEN d
  ELSE IF IsConstantOp(d.g, ids[i])
       THEN WalkConstants(PreprocessConstant(d, ids[i]), ids, i + 1)
       ELSE WalkConstants(d, ids, i + 1)

\* fn_.walk visits the constants of the function as they stood at the start:
\* a duplicate is created before the constant being visited
PreprocessConstantOps(d) == WalkConstants(d, d.g.order, 1)

RECURSIVE SetupArgs(_, _)
SetupArgs(d, i) ==
  IF i > Len(d.g.args) THEN d
  ELSE
    LET arg == Arg(i)
        value == IF hasOneUse(d.g, arg) /\ IsQuantizeCast(d.g, FirstUser(d.g, arg))
                 THEN Res(FirstUser(d.g, arg), 1) ELSE arg
        d1 == [d EXCEPT !.args = Append(@, arg)]
    IN SetupArgs(InitializeArgState(d1, arg, value), i + 1)

RECURSIVE SetupOperands(_, _, _)
SetupOperands(d, op, i) ==
  IF i > Len(d.g.ops[op].operands) THEN d
  ELSE
    LET operand == d.g.ops[op].operands[i]
        inst == DefiningOp(operand)
        value == IF inst # 0 /\ IsDequantizeCast(d.g, inst)
                 THEN d.g.ops[inst].operands[1] ELSE operand
    IN SetupOperands(InitializeOperandState(d, op, i, value), op, i + 1)

RECURSIVE SetupResults(_, _, _)
SetupResults(d, op, res) ==
  IF res > Len(d.g.ops[op].rtypes) THEN d
  ELSE
    LET result == Res(op, res)
        value == IF hasOneUse(d.g, result) /\ IsQuantizeCast(d.g, FirstUser(d.g, result))
                 THEN Res(FirstUser(d.g, result), 1) ELSE result
    IN SetupResults(InitializeResultState(d, op, res, value), op, res + 1)

\* variant that registers the quantizable operations only
RECURSIVE SetupOps_QuantizableOnly(_, _, _)
SetupOps_QuantizableOnly(d, ids, i) ==
  IF i > Len(ids) THEN d
  ELSE
    LET op == ids[i]
    IN IF ~IsOpQuantizable(d.g, op)
       THEN SetupOps_QuantizableOnly(d, ids, i + 1)
       ELSE SetupOps_QuantizableOnly(
              SetupResults(SetupOperands([d EXCEPT !.wl = Append(@, op)], op, 1), op, 1),
              ids, i + 1)

RECURSIVE SetupOps(_, _, _)
SetupOps(d, ids, i) ==
  IF i > Len(ids) THEN d
  ELSE
    LET op == ids[i]
    IN IF ~IsOpQuantizable(d.g, op) /\ ~d.g.ops[op].same_scale
       THEN SetupOps(d, ids, i + 1)
       ELSE SetupOps(SetupResults(SetupOperands([d EXCEPT !.wl = Append(@, op)],
                                                op, 1), op, 1),
                     ids, i + 1)

SetupAllStates(d) ==
  LET d1 == SetupArgs(d, 1) IN SetupOps(d1, d1.g.order, 1)

Initialize(d) == SetupAllStates(PreprocessConstantOps(d))

(***************************************************************************)
(* Assignment of parameters.  A method that returns a bool gives the       *)
(* record [d, ret].                                                        *)
(***************************************************************************)
RECURSIVE PushAll(_, _)
PushAll(wl, users) ==
  IF users = <<>> THEN wl ELSE PushAll(Append(wl, Head(users).op), Tail(users))

\* AddUserToList (quantization_driver.h): the users of the index-th result
\* of op go to the work list
AddUserToList(d, op, index) ==
  [d EXCEPT !.wl = PushAll(@, d.g.uses[Res(op, index)])]

\* AddOperandToList (quantization_driver.h): the operation that defines the
\* index-th operand of op goes to the work list
AddOperandToList(d, op, index) ==
  LET def == DefiningOp(d.g.ops[op].operands[index])
  IN IF def # 0 THEN [d EXCEPT !.wl = Append(@, def)] ELSE d

\* one entry of the history of assignments: the state index, the proposal,
\* the params and the requantize list of the state before and after, whether
\* the call left every requantize list (resc_same) and the whole driver
\* (same) as it found them
LogEntry(fn, d, d2, op, index, si, params, override, ret) ==
  [fn |-> fn, op |-> op, index |-> index, si |-> si, params |-> params,
   override |-> override, ret |-> ret,
   before |-> d.states[si].params, after |-> d2.states[si].params,
   immutable |-> d.states[si].immutable,
   resc_before |-> d.resc[si], resc_after |-> d2.resc[si],
   resc_same |-> d2.resc = d.resc, same |-> d2 = d]

Logged(fn, d, r, op, index, si, params, override) ==
  [d |-> [r.d EXCEPT !.log = Append(@, LogEntry(fn, d, r.d, op, index, si,
                                                 params, override, r.ret))],
   ret |-> r.ret]

\* SetResultParams without the conflict branch of lines 177-183
SetResultParamsBody_Clobber(d, op, res_index, params) ==
  LET si == d.rest[Use(op, res_index)]
  IN IF d.states[si].params = params THEN [d |-> d, ret |-> FALSE]
     ELSE [d |-> AddUserToList([d EXCEPT !.states[si].params = params], op, res_index),
           ret |-> TRUE]

\* SetResultParams that puts the users on the work list on a conflict too
SetResultParamsBody_PushOnConflict(d, op, res_index, params) ==
  LET si == d.rest[Use(op, res_index)]
      state == d.states[si]
  IN IF state.params = params THEN [d |-> d, ret |-> FALSE]
     ELSE IF ~IsEmptyParams(state.params)
     THEN [d |-> AddUserToList([d EXCEPT !.resc[si] =
                    Append(@, [pos |-> "ON_INPUT", params |-> params, users |-> <<>>])],
                    op, res_index),
           ret |-> TRUE]
     ELSE [d |-> AddUserToList([d EXCEPT !.states[si].params = params], op, res_index),
           ret |-> TRUE]

\* SetResultParams that stores the params of an empty state and requests a
\* requantize next to it
SetResultParamsBody_RequestOnEmpty(d, op, res_index, params) ==
  LET si == d.rest[Use(op, res_index)]
      state == d.states[si]
      request == [pos |-> "ON_INPUT", params |-> params, users |-> <<>>]
  IN IF state.params = params THEN [d |-> d, ret |-> FALSE]
     ELSE IF ~IsEmptyParams(state.params)
     THEN [d |-> [d EXCEPT !.resc[si] = Append(@, request)], ret |-> TRUE]
     ELSE [d |-> AddUserToList([d EXCEPT !.states[si].params = params,
                                         !.resc[si] = Append(@, request)],
                               op, res_index),
           ret |-> TRUE]

\* SetResultParams without the call of AddUserToList of line 185
SetResultParamsBody_NoPush(d, op, res_index, params) ==
  LET si == d.rest[Use(op, res_index)]
      state == d.states[si]
  IN IF state.params = params THEN [d |-> d, ret |-> FALSE]
     ELSE IF ~IsEmptyParams(state.params)
     THEN [d |-> [d EXCEPT !.resc[si] =
                    Append(@, [pos |-> "ON_INPUT", params |-> params, users |-> <<>>])],
           ret |-> TRUE]
     ELSE [d |-> [d EXCEPT !.states[si].params = params], ret |-> TRUE]

SetResultParamsBody(d, op, res_index, params) ==
  LET si == d.rest[Use(op, res_index)]
      state == d.states[si]
  IN IF state.params = params THEN [d |-> d, ret |-> FALSE]
     ELSE IF ~IsEmptyParams(state.params)
     THEN [d |-> [d EXCEPT !.resc[si] =
                    Append(@, [pos |-> "ON_INPUT", params |-> params, users |-> <<>>])],
           ret |-> TRUE]
     ELSE [d |-> AddUserToList([d EXCEPT !.states[si].params = params], op, res_index),
           ret |-> TRUE]

SetResultParams(d, op, res_index, params) ==
  Logged("SetResultParams", d, SetResultParamsBody(d, op, res_index, params),
         op, res_index, d.rest[Use(op, res_index)], params, FALSE)

\* the index of the first requantize state with the given params, 0 if none
FindRescale(rescales, params) ==
  IF \E j \in 1..Len(rescales) : rescales[j].params = params
  THEN CHOOSE j \in 1..Len(rescales) :
         /\ rescales[j].params = params
         /\ \A l \in 1..(j - 1) : rescales[l].params # params
  ELSE 0

\* SetOperandParams without the conflict branch of lines 229-242
SetOperandParamsBody_Clobber(d, op, index, params, override) ==
  LET si == d.opst[Use(op, index)]
  IN IF d.states[si].params = params THEN [d |-> d, ret |-> FALSE]
     ELSE [d |-> AddOperandToList([d EXCEPT !.states[si].params = params], op, index),
           ret |-> TRUE]

\* SetOperandParams without the search of lines 231-236 for a queued target
SetOperandParamsBody_NoMerge(d, op, index, params, override) ==
  LET si == d.opst[Use(op, index)]
      state == d.states[si]
  IN IF state.params = params THEN [d |-> d, ret |-> FALSE]
     ELSE IF ~IsEmptyParams(state.params) /\ ~override
     THEN [d |-> [d EXCEPT !.resc[si] =
                    Append(@, [pos |-> "ON_OUTPUT", params |-> params,
                               users |-> <<Use(op, index)>>])],
           ret |-> TRUE]
     ELSE [d |-> AddOperandToList([d EXCEPT !.states[si].params = params], op, index),
           ret |-> TRUE]

\* SetOperandParams that requests a requantize without recording the user
SetOperandParamsBody_NoUser(d, op, index, params, override) ==
  LET si == d.opst[Use(op, index)]
      state == d.states[si]
      rescales == d.resc[si]
      j == FindRescale(rescales, params)
  IN IF state.params = params THEN [d |-> d, ret |-> FALSE]
     ELSE IF ~IsEmptyParams(state.params) /\ ~override
     THEN IF j # 0
          THEN [d |-> [d EXCEPT !.resc[si][j].users = Append(@, Use(op, index))],
                ret |-> TRUE]
          ELSE [d |-> [d EXCEPT !.resc[si] =
                         Append(@, [pos |-> "ON_OUTPUT", params |-> params,
                                    users |-> <<>>])],
                ret |-> TRUE]
     ELSE [d |-> AddOperandToList([d EXCEPT !.states[si].params = params], op, index),
           ret |-> TRUE]

\* SetOperandParams that queues a new request after joining a queued one
SetOperandParamsBody_JoinAndAppend(d, op, index, params, override) ==
  LET si == d.opst[Use(op, index)]
      state == d.states[si]
      rescales == d.resc[si]
      j == FindRescale(rescales, params)
      new == [pos |-> "ON_OUTPUT", params |-> params, users |-> <<Use(op, index)>>]
  IN IF state.params = params THEN [d |-> d, ret |-> FALSE]
     ELSE IF ~IsEmptyParams(state.params) /\ ~override
     THEN IF j # 0
          THEN [d |-> [d EXCEPT !.resc[si] =
                         Append([@ EXCEPT ![j].users = Append(@, Use(op, index))], new)],
                ret |-> TRUE]
          ELSE [d |-> [d EXCEPT !.resc[si] = Append(@, new)], ret |-> TRUE]
     ELSE [d |-> AddOperandToList([d EXCEPT !.states[si].params = params], op, index),
           ret |-> TRUE]

\* SetOperandParams without the test for equal params of lines 225-227
SetOperandParamsBody_NoEqualTest(d, op, index, params, override) ==
  LET si == d.opst[Use(op, index)]
      state == d.states[si]
      rescales == d.resc[si]
      j == FindRescale(rescales, params)
  IN IF ~IsEmptyParams(state.params) /\ ~override
     THEN IF j # 0
          THEN [d |-> [d EXCEPT !.resc[si][j].users = Append(@, Use(op, index))],
                ret |-> TRUE]
          ELSE [d |-> [d EXCEPT !.resc[si] =
                         Append(@, [pos |-> "ON_OUTPUT", params |-> params,
                                    users |-> <<Use(op, index)>>])],
                ret |-> TRUE]
     ELSE [d |-> AddOperandToList([d EXCEPT !.states[si].params = params], op, index),
           ret |-> TRUE]

SetOperandParamsBody(d, op, index, params, override) ==
  LET si == d.opst[Use(op, index)]
      state == d.states[si]
      rescales == d.resc[si]
      j == FindRescale(rescales, params)
  IN IF state.params = params THEN [d |-> d, ret |-> FALSE]
     ELSE IF ~IsEmptyParams(state.params) /\ ~override
     THEN IF j # 0
          THEN [d |-> [d EXCEPT !.resc[si][j].users = Append(@, Use(op, index))],
                ret |-> TRUE]
          ELSE [d |-> [d EXCEPT !.resc[si] =
                         Append(@, [pos |-> "ON_OUTPUT", params |-> params,
                                    users |-> <<Use(op, index)>>])],
                ret |-> TRUE]
     ELSE [d |-> AddOperandToList([d EXCEPT !.states[si].params = params], op, index),
           ret |-> TRUE]

SetOperandParams(d, op, index, params, override) ==
  Logged("SetOperandParams", d, SetOperandParamsBody(d, op, index, params, override),
         op, index, d.opst[Use(op, index)], params, override)

IsWeight(d, cst) == cst \in d.weights

IsQuantized(d, op) ==
  \A i \in 1..Len(d.g.ops[op].rtypes) : ~IsEmptyParams(GetResultQuantState(d, op, i).params)

\* GetUniformQuantizedTypeForWeight / ...PerAxisTypeForWeight applied to the
\* content of the constant: content.wp, null when the range degenerates
SetConstantResultParams(d, op) ==
  LET rec == d.g.ops[op]
      final_type == rec.content.wp
  IN IF rec.rtypes[1].e # "f" THEN [d |-> d, ret |-> FALSE]
     ELSE IF IsEmptyParams(final_type) THEN [d |-> d, ret |-> FALSE]
     ELSE SetResultParams(d, op, 1, final_type)

(***************************************************************************)
(* Same-scale constraint.                                                  *)
(***************************************************************************)
\* the states of kind immutable (TRUE) or mutable and non-empty (FALSE)
\* among the given state indices, in order
RECURSIVE Collect(_, _, _)
Collect(states, idxs, imm) ==
  IF idxs = <<>> THEN <<>>
  ELSE LET st == states[Head(idxs)]
           rest == Collect(states, Tail(idxs), imm)
       IN IF imm /\ st.immutable THEN <<st>> \o rest
          ELSE IF ~imm /\ ~st.immutable /\ ~IsEmptyParams(st.params) THEN <<st>> \o rest
          ELSE rest

OperandStateIdxs(d, op) == [i \in 1..Len(d.g.ops[op].operands) |-> d.opst[Use(op, i)]]
ResultStateIdxs(d, op) == [i \in 1..Len(d.g.ops[op].rtypes) |-> d.rest[Use(op, i)]]

\* variant that lets a propagated (mutable) state win over a settled one
GetQuantParamsForSameScaleConstraint_MutableFirst(d, op) ==
  LET immutable_states == Collect(d.states, OperandStateIdxs(d, op), TRUE)
                            \o Collect(d.states, ResultStateIdxs(d, op), TRUE)
      mutable_states == Collect(d.states, OperandStateIdxs(d, op), FALSE)
                            \o Collect(d.states, ResultStateIdxs(d, op), FALSE)
  IN IF mutable_states # <<>> THEN mutable_states[1].params
     ELSE IF immutable_states # <<>> THEN immutable_states[1].params
     ELSE NoParams

\* variant that lets the propagated state of the only result win over the
\* settled states
GetQuantParamsForSameScaleConstraint_ResultFirst(d, op) ==
  LET numOperands == Len(d.g.ops[op].operands)
      numResults == Len(d.g.ops[op].rtypes)
      immOps == Collect(d.states, OperandStateIdxs(d, op), TRUE)
      mutOps == Collect(d.states, OperandStateIdxs(d, op), FALSE)
      immutable_states == immOps \o Collect(d.states, ResultStateIdxs(d, op), TRUE)
      mutable_states == mutOps \o Collect(d.states, ResultStateIdxs(d, op), FALSE)
      immutable_operands_num == Len(immOps)
      mutable_operands_num == Len(mutOps)
      immutable_results_num == Len(immutable_states) - immutable_operands_num
      mutable_results_num == Len(mutable_states) - mutable_operands_num
  IN IF numResults = 1 /\ mutable_results_num = 1
       THEN mutable_states[Len(mutable_states)].params
     ELSE IF numOperands = 1 /\ immutable_operands_num = 1
       THEN immutable_states[1].params
     ELSE IF numResults = 1 /\ immutable_results_num = 1
       THEN immutable_states[Len(immutable_states)].params
     ELSE IF immutable_states # <<>> THEN immutable_states[1].params
     ELSE IF numOperands = 1 /\ mutable_operands_num = 1
       THEN mutable_states[1].params
     ELSE IF mutable_states # <<>> THEN mutable_states[1].params
     ELSE NoParams

\* variant without the last rule, the first propagated state
GetQuantParamsForSameScaleConstraint_NoFallback(d, op) ==
  LET numOperands == Len(d.g.ops[op].operands)
      numResults == Len(d.g.ops[op].rtypes)
      immOps == Collect(d.states, OperandStateIdxs(d, op), TRUE)
      mutOps == Collect(d.states, OperandStateIdxs(d, op), FALSE)
      immutable_states == immOps \o Collect(d.states, ResultStateIdxs(d, op), TRUE)
      mutable_states == mutOps \o Collect(d.states, ResultStateIdxs(d, op), FALSE)
      immutable_operands_num == Len(immOps)
      mutable_operands_num == Len(mutOps)
      immutable_results_num == Len(immutable_states) - immutable_operands_num
      mutable_results_num == Len(mutable_states) - mutable_operands_num
  IN IF numOperands = 1 /\ immutable_operands_num = 1
       THEN immutable_states[1].params
     ELSE IF numResults = 1 /\ immutable_results_num = 1
       THEN immutable_states[Len(immutable_states)].params
     ELSE IF immutable_states # <<>> THEN immutable_states[1].params
     ELSE IF numOperands = 1 /\ mutable_operands_num = 1
       THEN mutable_states[1].params
     ELSE IF numResults = 1 /\ mutable_results_num = 1
       THEN mutable_states[Len(mutable_states)].params
     ELSE NoParams

GetQuantParamsForSameScaleConstraint(d, op) ==
  LET numOperands == Len(d.g.ops[op].operands)
      numResults == Len(d.g.ops[op].rtypes)
      immOps == Collect(d.states, OperandStateIdxs(d, op), TRUE)
      mutOps == Collect(d.states, OperandStateIdxs(d, op), FALSE)
      immutable_states == immOps \o Collect(d.states, ResultStateIdxs(d, op), TRUE)
      mutable_states == mutOps \o Collect(d.states, ResultStateIdxs(d, op), FALSE)
      immutable_operands_num == Len(immOps)
      mutable_operands_num == Len(mutOps)
      immutable_results_num == Len(immutable_states) - immutable_operands_num
      mutable_results_num == Len(mutable_states) - mutable_operands_num
  IN IF numOperands = 1 /\ immutable_operands_num = 1
       THEN immutable_states[1].params
     ELSE IF numResults = 1 /\ immutable_results_num = 1
       THEN immutable_states[Len(immutable_states)].params
     ELSE IF immutable_states # <<>> THEN immutable_states[1].params
     ELSE IF numOperands = 1 /\ mutable_operands_num = 1
       THEN mutable_states[1].params
     ELSE IF numResults = 1 /\ mutable_results_num = 1
       THEN mutable_states[Len(mutable_states)].params
     ELSE IF mutable_states # <<>> THEN mutable_states[1].params
     ELSE NoParams

(***************************************************************************)
(* Bias parameters.                                                        *)
(***************************************************************************)
RECURSIVE ScaleProduct(_)
ScaleProduct(ps) ==
  IF ps = <<>> THEN [n |-> 1, d |-> 1]
  ELSE LET r == ScaleProduct(Tail(ps))
           \* the common factors are cancelled before the multiplication
           g1 == Gcd(Head(ps).sn, r.d)
           g2 == Gcd(r.n, Head(ps).sd)
       IN [n |-> (Head(ps).sn \div g1) * (r.n \div g2),
           d |-> (Head(ps).sd \div g2) * (r.d \div g1)]

\* the AccumulatorScaleFunc of the adapter (GetUniformQuantizedTypeForBias):
\* a 32-bit type whose scale is the product of the scales of the non-bias
\* operands, null when one of them has no params yet
AccumulatorScaleFunc(op_types) ==
  IF \E i \in 1..Len(op_types) : IsEmptyParams(op_types[i]) THEN NoParams
  ELSE LET r == ScaleProduct(op_types) IN QP(r.n, r.d, 0, 32)

\* variant that solves the bias again whatever its state holds
GetBiasParams_AlwaysSolve(d, op, bias_index, non_biases) ==
  AccumulatorScaleFunc([j \in 1..Len(non_biases) |->
                          GetOperandQuantState(d, op, non_biases[j]).params])

GetBiasParams(d, op, bias_index, non_biases) ==
  LET bias_state == GetOperandQuantState(d, op, bias_index)
      op_types == [j \in 1..Len(non_biases) |->
                     GetOperandQuantState(d, op, non_biases[j]).params]
  IN IF ~IsEmptyParams(bias_state.params) THEN bias_state.params
     ELSE AccumulatorScaleFunc(op_types)

\* the defining arith::ConstantOp of an operand, 0 if there is none
DefiningConstant(g, v) ==
  IF DefiningOp(v) # 0 /\ IsConstantOp(g, DefiningOp(v)) THEN DefiningOp(v) ELSE 0

\* returns [ok, input_index, filter_index]
ShouldCheckBiasScale(d, op, bias_index, input_indices, params) ==
  LET rec == d.g.ops[op]
      no == [ok |-> FALSE, input_index |-> 0, filter_index |-> 0]
      bias_op == DefiningConstant(d.g, rec.operands[bias_index])
      filter_index == rec.affine
      input_index == IF filter_index = input_indices[1] THEN input_indices[2]
                     ELSE IF filter_index = input_indices[2] THEN input_indices[1]
                     ELSE 0
  IN IF rec.affine = 0 \/ bias_op = 0 \/ Len(input_indices) # 2 THEN no
     ELSE IF d.g.ops[bias_op].rtypes[1].e # "f" THEN no
     ELSE IF DefiningConstant(d.g, rec.operands[filter_index]) = 0 THEN no
     ELSE IF input_index = 0 THEN no
     ELSE IF ~(/\ GetOperandQuantState(d, op, input_index).params.w = 8
               /\ GetOperandQuantState(d, op, filter_index).params.w = 8
               /\ params.w = 32) THEN no
     ELSE [ok |-> TRUE, input_index |-> input_index, filter_index |-> filter_index]

\* variant that never duplicates the constant
DuplicateConstantOpIfNeeded_Never(d, cst, target_op, operand_index) ==
  [d |-> d, op |-> cst]

\* returns [d, op]: the constant that now feeds the operand
DuplicateConstantOpIfNeeded(d, cst, target_op, operand_index) ==
  IF hasOneUse(d.g, Res(cst, 1)) THEN [d |-> d, op |-> cst]
  ELSE
    LET new_op == NewOpId(d.g)
        g1 == CreateOp(d.g, [d.g.ops[cst] EXCEPT !.operands = <<>>], PosAfter(d.g, cst))
        g2 == SetOperand(g1, target_op, operand_index, Res(new_op, 1))
        d1 == InitializeOperandState([d EXCEPT !.g = g2], target_op, operand_index,
                                     Res(new_op, 1))
    IN [d |-> InitializeResultState(d1, new_op, 1, Res(new_op, 1)), op |-> new_op]

\* variant without the guard against the overflow of the bias
SetBiasParamsWithAdjustments_NoGuard(d, op, bias_index, input_indices, params) ==
  SetOperandParams(d, op, bias_index, params, FALSE)

SetBiasParamsWithAdjustments(d, op, bias_index, input_indices, params) ==
  LET chk == ShouldCheckBiasScale(d, op, bias_index, input_indices, params)
      input_state == GetOperandQuantState(d, op, chk.input_index)
      filter_state == GetOperandQuantState(d, op, chk.filter_index)
      bias_op == DefiningConstant(d.g, d.g.ops[op].operands[bias_index])
      bias_half_range == d.g.ops[bias_op].content.maxabs
      \* new_bias_scale = bias_half_range / kBiasMax
      new_bias == QP(bias_half_range, kBiasMax, 0, params.w)
      r1 == SetOperandParams(d, op, bias_index, new_bias, FALSE)
      dup == DuplicateConstantOpIfNeeded(
               r1.d, DefiningConstant(r1.d.g, r1.d.g.ops[op].operands[chk.filter_index]),
               op, chk.filter_index)
      \* new_bias_scale / input_scale
      new_filter == QP(bias_half_range * input_state.params.sd,
                       kBiasMax * input_state.params.sn, 0, filter_state.params.w)
      r2 == SetOperandParams(dup.d, op, chk.filter_index, new_filter, TRUE)
  IN IF ~chk.ok THEN SetOperandParams(d, op, bias_index, params, FALSE)
     \* bias_half_range / bias_params.getScale() < kBiasMax
     ELSE IF bias_half_range * params.sd < kBiasMax * params.sn
       THEN SetOperandParams(d, op, bias_index, params, FALSE)
     ELSE [d |-> r2.d, ret |-> r1.ret \/ r2.ret]

(***************************************************************************)
(* One iteration of the loop of PropagateParamsAndReturnIfChanged.         *)
(* A step record is [d, changed].                                          *)
(***************************************************************************)
\* variant that drops the value returned by the setter
Step_DropReturn(r, c) == [d |-> r.d, changed |-> c]

Step(r, c) == [d |-> r.d, changed |-> c \/ r.ret]

IsFloatTensor(t) == t.e = "f"

\* variant that leaves the operands of a same-scale operation alone
SameScaleOperands_Skip(s, op, params, i) == s

\* variant without the test of the element type of lines 773-780
RECURSIVE SameScaleOperands_AnyType(_, _, _, _)
SameScaleOperands_AnyType(s, op, params, i) ==
  IF i > Len(s.d.g.ops[op].operands) THEN s
  ELSE SameScaleOperands_AnyType(Step(SetOperandParams(s.d, op, i, params, FALSE),
                                      s.changed),
                                 op, params, i + 1)

RECURSIVE SameScaleOperands(_, _, _, _)
SameScaleOperands(s, op, params, i) ==
  IF i > Len(s.d.g.ops[op].operands) THEN s
  ELSE IF IsFloatTensor(ValueType(s.d.g, s.d.g.ops[op].operands[i]))
       THEN SameScaleOperands(Step(SetOperandParams(s.d, op, i, params, FALSE), s.changed),
                              op, params, i + 1)
       ELSE SameScaleOperands(s, op, params, i + 1)

\* variant that leaves the results of a same-scale operation alone
SameScaleResults_Skip(s, op, params, res) == s

RECURSIVE SameScaleResults(_, _, _, _)
SameScaleResults(s, op, params, res) ==
  IF res > Len(s.d.g.ops[op].rtypes) THEN s
  ELSE IF IsFloatTensor(ValueType(s.d.g, Res(op, res)))
       THEN SameScaleResults(Step(SetResultParams(s.d, op, res, params), s.changed),
                             op, params, res + 1)
       ELSE SameScaleResults(s, op, params, res + 1)

RECURSIVE FixedRangeResults(_, _, _, _)
FixedRangeResults(s, op, params, i) ==
  IF i > Len(s.d.g.ops[op].rtypes) THEN s
  ELSE IF ~IsEmptyParams(params)
       THEN FixedRangeResults(Step(SetResultParams(s.d, op, i, params), s.changed),
                              op, params, i + 1)
       ELSE FixedRangeResults(s, op, params, i + 1)

\* variant that skips a bias without params and leaves the operation in the
\* visited set
RECURSIVE BiasLoop_NoErase(_, _, _, _)
BiasLoop_NoErase(s, op, biases, j) ==
  IF j > Len(biases) THEN s
  ELSE
    LET params == GetBiasParams(s.d, op, biases[j].b, biases[j].nb)
    IN IF IsEmptyParams(params)
       THEN BiasLoop_NoErase(s, op, biases, j + 1)
       ELSE BiasLoop_NoErase(Step(SetBiasParamsWithAdjustments(s.d, op, biases[j].b,
                                                               biases[j].nb, params),
                                  s.changed),
                             op, biases, j + 1)

\* the loop over spec->biases_params; the map is read once, before the loop
RECURSIVE BiasLoop(_, _, _, _)
BiasLoop(s, op, biases, j) ==
  IF j > Len(biases) THEN s
  ELSE
    LET params == GetBiasParams(s.d, op, biases[j].b, biases[j].nb)
    IN IF IsEmptyParams(params)
       THEN BiasLoop([s EXCEPT !.d.quantized = @ \ {op}], op, biases, j + 1)
       ELSE BiasLoop(Step(SetBiasParamsWithAdjustments(s.d, op, biases[j].b,
                                                       biases[j].nb, params),
                          s.changed),
                     op, biases, j + 1)

\* variant that puts an operation it defers back on the work list, at the
\* far end
ProcessOp_Requeue(s, op, cf) ==
  LET rec == s.d.g.ops[op]
      params == GetQuantParamsForSameScaleConstraint(s.d, op)
      s1 == [s EXCEPT !.d.quantized = @ \ {op}, !.d.wl = <<op>> \o @]
  IN IF rec.same_scale /\ IsEmptyParams(params) THEN s1
     ELSE IF rec.same_scale
       THEN SameScaleResults(SameScaleOperands(s, op, params, 1), op, params, 1)
     ELSE s

\* variant in which the deferral of lines 767-770 does not end the visit:
\* the fixed output range and the biases are still looked at
ProcessOp_DeferAndGoOn(s, op, cf) ==
  LET rec == s.d.g.ops[op]
      params == GetQuantParamsForSameScaleConstraint(s.d, op)
      deferred == rec.same_scale /\ IsEmptyParams(params)
      s1 == IF deferred THEN [s EXCEPT !.d.quantized = @ \ {op}]
            ELSE IF rec.same_scale
            THEN SameScaleResults(SameScaleOperands(s, op, params, 1), op, params, 1)
            ELSE s
      s2 == IF rec.has_fixed /\ cf.infer_tensor_range /\ ~cf.is_qdq_conversion
            THEN FixedRangeResults(s1, op, rec.fixed, 1)
            ELSE s1
  IN BiasLoop(s2, op, rec.biases, 1)

\* variant that assigns the fixed output range in qdq conversion mode too
ProcessOp_FixedInQdq(s, op, cf) ==
  LET rec == s.d.g.ops[op]
      params == GetQuantParamsForSameScaleConstraint(s.d, op)
      deferred == rec.same_scale /\ IsEmptyParams(params)
      s1 == IF rec.same_scale
            THEN SameScaleResults(SameScaleOperands(s, op, params, 1), op, params, 1)
            ELSE s
      s2 == IF rec.has_fixed /\ cf.infer_tensor_range
            THEN FixedRangeResults(s1, op, rec.fixed, 1)
            ELSE s1
  IN IF deferred THEN [s EXCEPT !.d.quantized = @ \ {op}]
     ELSE BiasLoop(s2, op, rec.biases, 1)

\* lines 761-819, for an operation that is not a constant
ProcessOp(s, op, cf) ==
  LET rec == s.d.g.ops[op]
      params == GetQuantParamsForSameScaleConstraint(s.d, op)
      deferred == rec.same_scale /\ IsEmptyParams(params)
      s1 == IF rec.same_scale
            THEN SameScaleResults(SameScaleOperands(s, op, params, 1), op, params, 1)
            ELSE s
      s2 == IF rec.has_fixed /\ cf.infer_tensor_range /\ ~cf.is_qdq_conversion
            THEN FixedRangeResults(s1, op, rec.fixed, 1)
            ELSE s1
  IN IF deferred THEN [s EXCEPT !.d.quantized = @ \ {op}]
     ELSE BiasLoop(s2, op, rec.biases, 1)

\* the body of the while loop without the IsWeight test of line 753
PropagateStep_NoWeightTest(s, cf) ==
  LET op == s.d.wl[Len(s.d.wl)]
      d0 == [s.d EXCEPT !.wl = SubSeq(@, 1, Len(@) - 1), !.log = <<>>]
      d1 == [d0 EXCEPT !.quantized = @ \cup {op}]
  IN IF op \in s.d.quantized THEN [s EXCEPT !.d = d0]
     ELSE IF IsConstantOp(d1.g, op)
       THEN IF cf.infer_tensor_range /\ ~IsQuantized(d1, op)
            THEN Step(SetConstantResultParams(d1, op), s.changed)
            ELSE [s EXCEPT !.d = d1]
     ELSE ProcessOp([s EXCEPT !.d = d1], op, cf)

\* the body of the while loop without the test of line 746
PropagateStep_NoVisitedTest(s, cf) ==
  LET op == s.d.wl[Len(s.d.wl)]
      d0 == [s.d EXCEPT !.wl = SubSeq(@, 1, Len(@) - 1), !.log = <<>>]
      d1 == [d0 EXCEPT !.quantized = @ \cup {op}]
  IN IF IsConstantOp(d1.g, op)
       THEN IF cf.infer_tensor_range /\ IsWeight(d1, op) /\ ~IsQuantized(d1, op)
            THEN Step(SetConstantResultParams(d1, op), s.changed)
            ELSE [s EXCEPT !.d = d1]
     ELSE ProcessOp([s EXCEPT !.d = d1], op, cf)

\* the body of the while loop: s.d.wl is not empty
PropagateStep(s, cf) ==
  LET op == s.d.wl[Len(s.d.wl)]
      d0 == [s.d EXCEPT !.wl = SubSeq(@, 1, Len(@) - 1), !.log = <<>>]
      d1 == [d0 EXCEPT !.quantized = @ \cup {op}]
  IN IF op \in s.d.quantized THEN [s EXCEPT !.d = d0]
     ELSE IF IsConstantOp(d1.g, op)
       THEN IF cf.infer_tensor_range /\ IsWeight(d1, op) /\ ~IsQuantized(d1, op)
            THEN Step(SetConstantResultParams(d1, op), s.changed)
            ELSE [s EXCEPT !.d = d1]
     ELSE ProcessOp([s EXCEPT !.d = d1], op, cf)

(***************************************************************************)
(* Finalize: the graph is rewritten from the states.  The builder's        *)
(* insertion point is a position of g.order; an operation created at pos   *)
(* leaves the insertion point at pos + 1.                                  *)
(***************************************************************************)
QuantizeCastOp(value, type) ==
  [OpRec("q", <<value>>, <<type>>) EXCEPT !.volatile = FALSE]

DequantizeCastOp(value, type) == OpRec("dq", <<value>>, <<type>>)

\* variant that leaves the consumers of the value where they are
QuantizeValue_NoRewire(g, value, params, pos) ==
  LET expressed_type == ValueType(g, value)
      quantize == NewOpId(g)
      g1 == CreateOp(g, QuantizeCastOp(value, TQ(params)), pos)
      g2 == CreateOp(g1, DequantizeCastOp(Res(quantize, 1), expressed_type), pos + 1)
  IN IF ~IsExpressed(expressed_type) THEN g
     ELSE [g2 EXCEPT !.ops[quantize].volatile = TRUE]

QuantizeValue(g, value, params, pos) ==
  LET expressed_type == ValueType(g, value)
      quantize == NewOpId(g)
      g1 == CreateOp(g, QuantizeCastOp(value, TQ(params)), pos)
      dequantize == NewOpId(g1)
      g2 == CreateOp(g1, DequantizeCastOp(Res(quantize, 1), expressed_type), pos + 1)
      g3 == [g2 EXCEPT !.ops[quantize].volatile = TRUE]
      g4 == ReplaceAllUsesWith(g3, value, Res(dequantize, 1))
  IN IF ~IsExpressed(expressed_type) THEN g
     ELSE ReplaceUsesOfWith(g4, quantize, Res(dequantize, 1), value, 1)

QuantizeOpResult(g, op, index, params) ==
  QuantizeValue(g, Res(op, index), params, PosAfter(g, op))

QuantizeArg(g, arg, params) == QuantizeValue(g, arg, params, 1)

RECURSIVE SetUsers(_, _, _)
SetUsers(g, users, v) ==
  IF users = <<>> THEN g
  ELSE SetUsers(SetOperand(g, Head(users).op, Head(users).idx, v), Tail(users), v)

\* the loop of lines 367-391 over the requantize states
RECURSIVE RequantizeLoop(_, _, _, _, _, _, _)
RequantizeLoop(g, value, states, i, dequant_op, clobber_first, pos) ==
  IF i > Len(states) THEN g
  ELSE IF ~HasExpressed(ValueType(g, value))
    THEN RequantizeLoop(g, value, states, i + 1, dequant_op, clobber_first, pos)
  ELSE
    LET requantize_op == NewOpId(g)
        g1 == CreateOp(g, QuantizeCastOp(value, TQ(states[i].params)), pos)
        new_dequant_op == NewOpId(g1)
        g2 == CreateOp(g1, DequantizeCastOp(Res(requantize_op, 1),
                                            g.ops[dequant_op].rtypes[1]), pos + 1)
    IN IF clobber_first
       THEN RequantizeLoop(SetOperand(g1, dequant_op, 1, Res(requantize_op, 1)),
                           value, states, i + 1, dequant_op, FALSE, pos + 1)
       ELSE RequantizeLoop(SetUsers(g2, states[i].users, Res(new_dequant_op, 1)),
                           value, states, i + 1, dequant_op, FALSE, pos + 2)

\* variant that always rebinds the existing dequantize op to the first target
RequantizeValue_ClobberAlways(g, value, states, pos) ==
  LET state == states[1]
      requantize_op == NewOpId(g)
      g1 == CreateOp(g, QuantizeCastOp(value, TQ(state.params)), pos)
      g2 == ReplaceAllUsesWith(g1, value, Res(requantize_op, 1))
      dequant_op == FirstUser(g, value)
  IN IF states = <<>> \/ states[1].pos = "NO_REQUANTIZE" THEN g
     ELSE IF states[1].pos = "ON_INPUT"
       THEN IF ~IsExpressed(ValueType(g, value)) THEN g
            ELSE ReplaceUsesOfWith(g2, requantize_op, Res(requantize_op, 1), value, 1)
     ELSE IF ~hasOneUse(g, value) THEN g
     ELSE IF ~IsDequantizeCast(g, dequant_op) THEN g
     ELSE RequantizeLoop(g, value, states, 1, dequant_op, TRUE, pos)

RequantizeValue(g, value, states, pos) ==
  LET state == states[1]
      requantize_op == NewOpId(g)
      g1 == CreateOp(g, QuantizeCastOp(value, TQ(state.params)), pos)
      g2 == ReplaceAllUsesWith(g1, value, Res(requantize_op, 1))
      dequant_op == FirstUser(g, value)
      num_uses == Len(g.uses[Res(dequant_op, 1)])
  IN IF states = <<>> \/ states[1].pos = "NO_REQUANTIZE" THEN g
     ELSE IF states[1].pos = "ON_INPUT"
       THEN IF ~IsExpressed(ValueType(g, value)) THEN g
            ELSE ReplaceUsesOfWith(g2, requantize_op, Res(requantize_op, 1), value, 1)
     ELSE IF ~hasOneUse(g, value) THEN g
     ELSE IF ~IsDequantizeCast(g, dequant_op) THEN g
     ELSE RequantizeLoop(g, value, states, 1, dequant_op,
                         num_uses <= Len(states), pos)

\* variant without the test that all requests have the position of the first
RequantizeOpResult_NoPositionTest(g, op, index, states) ==
  LET value == Res(op, index)
      pos == states[1].pos
      user == FirstUser(g, value)
      through == pos = "ON_OUTPUT" /\ g.uses[value] # <<>> /\ IsQuantizeCast(g, user)
  IN IF states = <<>> THEN g
     ELSE IF pos = "NO_REQUANTIZE" THEN g
     ELSE IF through THEN RequantizeValue(g, Res(user, 1), states, PosAfter(g, user))
     ELSE RequantizeValue(g, value, states, PosAfter(g, op))

\* value.getUses().begin() of a value without uses is not dereferenced here:
\* a value that has a before-consumer request has the consumer as a use
RequantizeOpResult(g, op, index, states) ==
  LET value == Res(op, index)
      pos == states[1].pos
      user == FirstUser(g, value)
      through == pos = "ON_OUTPUT" /\ g.uses[value] # <<>> /\ IsQuantizeCast(g, user)
  IN IF states = <<>> THEN g
     ELSE IF pos = "NO_REQUANTIZE" THEN g
     ELSE IF \E j \in 1..Len(states) : states[j].pos # pos THEN g
     ELSE IF through THEN RequantizeValue(g, Res(user, 1), states, PosAfter(g, user))
     ELSE RequantizeValue(g, value, states, PosAfter(g, op))

RequantizeArg(g, arg, states) ==
  LET user == FirstUser(g, arg)
  IN IF hasOneUse(g, arg) /\ IsQuantizeCast(g, user)
     THEN RequantizeValue(g, Res(user, 1), states, PosAfter(g, user))
     ELSE RequantizeValue(g, arg, states, 1)

\* Finalize without the test of state.IsEmpty() of lines 830 and 848
FinalizeOne_NoEmptyTest(g, state, requantizes, isArg, v) ==
  LET g1 == IF ~state.immutable
            THEN IF isArg THEN QuantizeArg(g, v, state.params)
                 ELSE QuantizeOpResult(g, v.o, v.i, state.params)
            ELSE g
  IN IF state.immutable /\ requantizes = <<>> THEN g
     ELSE IF requantizes = <<>> THEN g1
     ELSE IF isArg THEN RequantizeArg(g1, v, requantizes)
     ELSE RequantizeOpResult(g1, v.o, v.i, requantizes)

FinalizeOne(g, state, requantizes, isArg, v) ==
  LET g1 == IF ~state.immutable
            THEN IF isArg THEN QuantizeArg(g, v, state.params)
                 ELSE QuantizeOpResult(g, v.o, v.i, state.params)
            ELSE g
  IN IF IsEmptyParams(state.params) \/ (state.immutable /\ requantizes = <<>>) THEN g
     ELSE IF requantizes = <<>> THEN g1
     ELSE IF isArg THEN RequantizeArg(g1, v, requantizes)
     ELSE RequantizeOpResult(g1, v.o, v.i, requantizes)

RECURSIVE FinalizeArgs(_, _)
FinalizeArgs(d, i) ==
  IF i > Len(d.args) THEN d
  ELSE FinalizeArgs([d EXCEPT !.g = FinalizeOne(d.g, GetArgQuantState(d, d.args[i]),
                                                GetArgRequantizeStates(d, d.args[i]),
                                                TRUE, d.args[i])],
                    i + 1)

\* the keys of result_states_ in the order in which the map is traversed
RECURSIVE KeyOrder(_)
KeyOrder(keys) ==
  IF keys = {} THEN <<>>
  ELSE LET k == CHOOSE k \in keys :
                  \A l \in keys : k.op < l.op \/ (k.op = l.op /\ k.idx <= l.idx)
       IN <<k>> \o KeyOrder(keys \ {k})

RECURSIVE FinalizeResults(_, _, _)
FinalizeResults(d, keys, i) ==
  IF i > Len(keys) THEN d
  ELSE FinalizeResults(
         [d EXCEPT !.g = FinalizeOne(d.g, GetResultQuantState(d, keys[i].op, keys[i].idx),
                                     GetResultRequantizeStates(d, keys[i].op, keys[i].idx),
                                     FALSE, Res(keys[i].op, keys[i].idx))],
         keys, i + 1)

Finalize(d) == FinalizeResults(FinalizeArgs(d, 1), KeyOrder(DOMAIN d.rest), 1)

(***************************************************************************)
(* The functions the driver is run on.                                     *)
(***************************************************************************)
\* {scale = 0.5, zp = 0}, 8 bits
P05 == QP(1, 2, 0, 8)
\* {scale = 1, zp = 0}, 8 bits
P1 == QP(1, 1, 0, 8)
\* {scale = 2^-15, zp = 0}, 8 bits
PT == QP(1, 32768, 0, 8)
\* the params of a fixed output range: {scale = 1/256, zp = -128}, 8 bits
PF == QP(1, 256, -128, 8)

AddOpEnd(g, rec) == CreateOp(g, rec, Len(g.order) + 1)
LastOp(g) == Len(g.ops)

\* value v as a consumer reads it: v itself, or v quantized with params p by
\* an existing quantize / dequantize pair
Pre(g, v, p) ==
  IF IsEmptyParams(p) THEN [g |-> g, v |-> v]
  ELSE LET g1 == AddOpEnd(g, OpRec("q", <<v>>, <<TQ(p)>>))
           g2 == AddOpEnd(g1, OpRec("dq", <<Res(LastOp(g1), 1)>>, <<TF>>))
       IN [g |-> g2, v |-> Res(LastOp(g2), 1)]

QuantizableOp(operands, rtypes) ==
  [OpRec("op", operands, rtypes) EXCEPT !.quantizable = TRUE]

FloatConstant(fin, maxabs, wp) ==
  [OpRec("cst", <<>>, <<TF>>) EXCEPT
     !.quantizable = TRUE,
     !.content = [fin |-> fin, maxabs |-> maxabs, wp |-> wp]]

Terminator(operands) == OpRec("term", operands, <<>>)

PreSet == {NoParams, P05, P1}

\* a same-scale ("add-like") operation add(x0 [, x1]) with one or two
\* results; x1 is an argument or the result of an operation with a fixed
\* output range; the first result goes to the terminator directly, through
\* an existing quantize / dequantize pair, or through a second same-scale
\* operation whose result is already quantized
AddGraph(pa, src1, pb, shape, nres, sink, pr, fixed) ==
  LET Returned(r, add) ==
        AddOpEnd(r.g, Terminator(IF nres = 2 THEN <<r.v, Res(add, 2)>>
                                 ELSE <<r.v>>))
      SinkRead(gs) == Pre(gs, Res(LastOp(gs), 1), pr)
      WithAdd(ga, add) ==
        Returned(IF sink = "ss"
                 THEN SinkRead(AddOpEnd(ga, [QuantizableOp(<<Res(add, 1)>>, <<TF>>)
                                               EXCEPT !.same_scale = TRUE]))
                 ELSE Pre(ga, Res(add, 1), pr),
                 add)
      Added(ga) == WithAdd(ga, LastOp(ga))
      FixedSource(gf) == [g |-> gf, v |-> Res(LastOp(gf), 1)]
      WithOperands(x0, x1) ==
        Added(AddOpEnd(x1.g,
                       [QuantizableOp(IF shape = 1 THEN <<x0.v>>
                                      ELSE IF shape = 2 THEN <<x0.v, x1.v>>
                                      ELSE <<x0.v, x1.v, x1.v>>,
                                      [i \in 1..nres |-> TF])
                          EXCEPT !.same_scale = TRUE, !.has_fixed = fixed,
                                 !.fixed = PF]))
      WithFirst(x0) ==
        WithOperands(x0,
                     IF src1 = "fix"
                     THEN FixedSource(AddOpEnd(x0.g, [QuantizableOp(<<Arg(2)>>, <<TF>>)
                                                        EXCEPT !.has_fixed = TRUE,
                                                               !.fixed = PF]))
                     ELSE Pre(x0.g, Arg(2), pb))
  IN WithFirst(Pre(EmptyGraph(<<TF, TF>>), Arg(1), pa))

AddGraphs ==
  {AddGraph(pa, src1, pb, shape, nres, sink, pr, fixed) :
     pa \in PreSet, src1 \in {"arg", "fix"}, pb \in PreSet, shape \in 1..3,
     nres \in 1..2, sink \in {"term", "ss"}, pr \in PreSet, fixed \in BOOLEAN}

\* a convolution-like operation conv(x, filter, bias) whose bias is solved
\* from the input and the filter; the filter constant is used by conv alone,
\* by a second weight user (the scale spec of the constant then declares a
\* fixed output range), by a same-scale operation, by an existing quantize
\* op, or as the bias too; or the bias constant is used by a same-scale
\* operation too (bias2)
ConvGraph(pa, fin, wp, share, affine) ==
  LET Returned(g, outs) == AddOpEnd(g, Terminator(outs))
      WithConv(gc, cw, cb) ==
        LET conv == LastOp(gc)
            Second(g2) == Returned(g2, <<Res(conv, 1), Res(LastOp(g2), 1)>>)
            Quantized(q) == Returned(q.g, <<Res(conv, 1), q.v>>)
        IN IF share = "q" THEN Quantized(Pre(gc, Res(cw, 1), P05))
           ELSE IF share = "conv2"
           THEN Second(AddOpEnd(gc, QuantizableOp(<<Arg(2), Res(cw, 1)>>, <<TF>>)))
           ELSE IF share = "same"
           THEN Second(AddOpEnd(gc, [QuantizableOp(<<Res(conv, 1), Res(cw, 1)>>, <<TF>>)
                                       EXCEPT !.same_scale = TRUE]))
           ELSE IF share = "bias2"
           THEN Second(AddOpEnd(gc, [QuantizableOp(<<Res(conv, 1), Res(cb, 1)>>, <<TF>>)
                                       EXCEPT !.same_scale = TRUE]))
           ELSE Returned(gc, <<Res(conv, 1)>>)
      WithBias(gb, x, cw) ==
        LET cb == LastOp(gb)
            bias == IF share = "bias" THEN Res(cw, 1) ELSE Res(cb, 1)
        IN WithConv(AddOpEnd(gb, [QuantizableOp(<<x.v, Res(cw, 1), bias>>, <<TF>>)
                                    EXCEPT !.biases = <<[b |-> 3, nb |-> <<1, 2>>]>>,
                                           !.affine = affine]),
                    cw, cb)
      WithFilter(gw, x) ==
        WithBias(AddOpEnd(gw, FloatConstant(<<TRUE>>, 1, NoParams)), x, LastOp(gw))
      WithInput(x) ==
        WithFilter(AddOpEnd(x.g, [FloatConstant(fin, 1, wp) EXCEPT
                                    !.has_fixed = (share = "conv2"), !.fixed = PF]),
                   x)
  IN WithInput(Pre(EmptyGraph(<<TF, TF>>), Arg(1), pa))

\* the content of the filter: finite, first element not finite, a later
\* element not finite
Contents == {<<TRUE>>, <<FALSE>>, <<TRUE, FALSE>>}

ConvGraphs ==
  {ConvGraph(pa, fin, wp, share, affine) :
     pa \in {NoParams, P05, PT}, fin \in Contents, wp \in {P1, PT},
     share \in {"none", "conv2", "same", "q"}, affine \in {0, 2}}
  \cup
  {ConvGraph(pa, <<TRUE>>, wp, share, affine) :
     pa \in {NoParams, P05, PT}, wp \in {P1, PT}, share \in {"bias", "bias2"},
     affine \in {0, 2}}

\* a same-scale operation mixed(x0, x1) with two results: x0 and the first
\* result are float tensors, x1 (an argument) and the second result have the
\* type t, an integer tensor or a tensor of quantized type; the operation
\* is quantizable (qz) or has the same-scale requirement only
MixedGraph(pa, t, pr, qz) ==
  LET Returned(r, mixed) == AddOpEnd(r.g, Terminator(<<r.v, Res(mixed, 2)>>))
      WithMixed(gm) == Returned(Pre(gm, Res(LastOp(gm), 1), pr), LastOp(gm))
      WithInput(x0) ==
        WithMixed(AddOpEnd(x0.g, [QuantizableOp(<<x0.v, Arg(2)>>, <<TF, t>>) EXCEPT
                                    !.same_scale = TRUE, !.quantizable = qz]))
  IN WithInput(Pre(EmptyGraph(<<TF, t>>), Arg(1), pa))

MixedGraphs ==
  {MixedGraph(pa, t, pr, qz) : pa \in {NoParams, P05}, t \in {TI, TQ(P1)},
                               pr \in {NoParams, P1}, qz \in BOOLEAN}

\* two operations with a fixed output range, g(a1) and h(a2), and two
\* same-scale operations that share the result of g: b(x, g) with x an
\* argument, quantized or not, and a(h, g)
SharedGraph(pb) ==
  LET WithA(ga, b) == AddOpEnd(ga, Terminator(<<Res(b, 1), Res(LastOp(ga), 1)>>))
      WithB(gb, g, h) ==
        WithA(AddOpEnd(gb, [QuantizableOp(<<Res(h, 1), Res(g, 1)>>, <<TF>>) EXCEPT
                              !.same_scale = TRUE]),
              LastOp(gb))
      WithX(x, g, h) ==
        WithB(AddOpEnd(x.g, [QuantizableOp(<<x.v, Res(g, 1)>>, <<TF>>) EXCEPT
                               !.same_scale = TRUE]),
              g, h)
      WithH(gh, g) == WithX(Pre(gh, Arg(3), pb), g, LastOp(gh))
      WithG(gg) ==
        WithH(AddOpEnd(gg, [QuantizableOp(<<Arg(2)>>, <<TF>>) EXCEPT
                              !.has_fixed = TRUE, !.fixed = PF]),
              LastOp(gg))
  IN WithG(AddOpEnd(EmptyGraph(<<TF, TF, TF>>),
                    [QuantizableOp(<<Arg(1)>>, <<TF>>) EXCEPT
                       !.has_fixed = TRUE, !.fixed = PF]))

SharedGraphs == {SharedGraph(pb) : pb \in {NoParams, P05}}

\* an operation lstm(x, filter, b1, y, b2) with two biases: b1 is solved from
\* x and the filter, b2 from y alone; x is an argument quantized with pa, y
\* the result of an operation with a fixed output range that comes before
\* the constants, so that b1 is solved in an earlier visit than b2; b2 is a
\* constant, or an argument that is already quantized with pb
TwoBiasGraph(pa, wp, affine, pb) ==
  LET WithLayer(gl) == AddOpEnd(gl, Terminator(<<Res(LastOp(gl), 1)>>))
      WithSecond(b2, x, cw, cb1, y) ==
        WithLayer(AddOpEnd(b2.g, [QuantizableOp(<<x.v, Res(cw, 1), Res(cb1, 1),
                                                  Res(y, 1), b2.v>>, <<TF>>) EXCEPT
                                    !.biases = <<[b |-> 3, nb |-> <<1, 2>>],
                                                 [b |-> 5, nb |-> <<4>>]>>,
                                    !.affine = affine]))
      ConstantBias(g2) == [g |-> g2, v |-> Res(LastOp(g2), 1)]
      WithFirst(g1, x, cw, y) ==
        WithSecond(IF IsEmptyParams(pb)
                   THEN ConstantBias(AddOpEnd(g1, FloatConstant(<<TRUE>>, 1, NoParams)))
                   ELSE Pre(g1, Arg(3), pb),
                   x, cw, LastOp(g1), y)
      WithFilter(gw, x, y) ==
        WithFirst(AddOpEnd(gw, FloatConstant(<<TRUE>>, 1, NoParams)), x, LastOp(gw), y)
      WithInput(x, y) == WithFilter(AddOpEnd(x.g, FloatConstant(<<TRUE>>, 1, wp)), x, y)
      WithFixed(gg) == WithInput(Pre(gg, Arg(1), pa), LastOp(gg))
  IN WithFixed(AddOpEnd(EmptyGraph(<<TF, TF, TF>>),
                        [QuantizableOp(<<Arg(2)>>, <<TF>>) EXCEPT
                           !.has_fixed = TRUE, !.fixed = PF]))

TwoBiasGraphs ==
  {TwoBiasGraph(pa, wp, affine, pb) : pa \in {P05, PT}, wp \in {P1, PT},
                                      affine \in {0, 2}, pb \in {NoParams, P1}}

\* a same-scale operation s(u, x) whose operand u is the result of an
\* operation that is neither quantizable nor same-scale, and so is not
\* registered by SetupAllStates; x is an argument quantized with pa
UnregisteredGraph(pa) ==
  LET WithS(gs) == AddOpEnd(gs, Terminator(<<Res(LastOp(gs), 1)>>))
      WithX(x, u) ==
        WithS(AddOpEnd(x.g, [QuantizableOp(<<Res(u, 1), x.v>>, <<TF>>) EXCEPT
                               !.same_scale = TRUE]))
      WithU(gu) == WithX(Pre(gu, Arg(2), pa), LastOp(gu))
  IN WithU(AddOpEnd(EmptyGraph(<<TF, TF>>), OpRec("op", <<Arg(1)>>, <<TF>>)))

UnregisteredGraphs == {UnregisteredGraph(pa) : pa \in {P05, P1}}

\* a Value v read by two or three same-scale operations c(x, v), each with
\* an operand x of its own that is an argument quantized with P1, pc and pd;
\* v is an argument or the result of an operation with a fixed output range
ConsumersGraph(src, pc, pd) ==
  LET g0 == EmptyGraph(<<TF, TF, TF, TF>>)
      Consumer(x, v) ==
        AddOpEnd(x.g, [QuantizableOp(<<x.v, v>>, <<TF>>) EXCEPT !.same_scale = TRUE])
      FixedSource(gf) == [g |-> gf, v |-> Res(LastOp(gf), 1)]
      WithThird(g3, c1, c2) ==
        AddOpEnd(g3, Terminator(<<Res(c1, 1), Res(c2, 1), Res(LastOp(g3), 1)>>))
      WithSecond(g2, v, c1) ==
        IF IsEmptyParams(pd)
        THEN AddOpEnd(g2, Terminator(<<Res(c1, 1), Res(LastOp(g2), 1)>>))
        ELSE WithThird(Consumer(Pre(g2, Arg(4), pd), v), c1, LastOp(g2))
      WithFirst(g1, v) == WithSecond(Consumer(Pre(g1, Arg(3), pc), v), v, LastOp(g1))
      WithSource(s) == WithFirst(Consumer(Pre(s.g, Arg(2), P1), s.v), s.v)
  IN WithSource(IF src = "fix"
                THEN FixedSource(AddOpEnd(g0, [QuantizableOp(<<Arg(1)>>, <<TF>>) EXCEPT
                                                 !.has_fixed = TRUE, !.fixed = PF]))
                ELSE [g |-> g0, v |-> Arg(1)])

ConsumersGraphs ==
  {ConsumersGraph(src, pc, pd) :
     src \in {"arg", "fix"}, pc \in {P05, P1}, pd \in {NoParams, P05, PT}}

Graphs == AddGraphs \cup ConvGraphs \cup MixedGraphs \cup SharedGraphs \cup TwoBiasGraphs
            \cup UnregisteredGraphs \cup ConsumersGraphs

\* infer_tensor_range_, is_qdq_conversion_
Configs ==
  {[infer_tensor_range |-> TRUE, is_qdq_conversion |-> FALSE],
   [infer_tensor_range |-> FALSE, is_qdq_conversion |-> FALSE],
   [infer_tensor_range |-> TRUE, is_qdq_conversion |-> TRUE]}

(***************************************************************************)
(* The state machine of QuantizationDriver::Run.                           *)
(***************************************************************************)
VARIABLES graph, states, value_to_state, operand_states, result_states,
          arg_states, rescale_states, work_list, quantized_, weights_,
          optimized_weights_, args_, changed, pc, cfg, run, log, graph0,
          states0, phases, loop

vars == <<graph, states, value_to_state, operand_states, result_states,
          arg_states, rescale_states, work_list, quantized_, weights_,
          optimized_weights_, args_, changed, pc, cfg, run, log, graph0,
          states0, phases, loop>>

\* the driver object as a record, and back
Drv ==
  [g |-> graph, states |-> states, v2s |-> value_to_state, opst |-> operand_states,
   rest |-> result_states, argst |-> arg_states, resc |-> rescale_states,
   wl |-> work_list, quantized |-> quantized_, weights |-> weights_,
   optw |-> optimized_weights_, args |-> args_, log |-> log]

Becomes(d) ==
  /\ graph' = d.g
  /\ states' = d.states
  /\ value_to_state' = d.v2s
  /\ operand_states' = d.opst
  /\ result_states' = d.rest
  /\ arg_states' = d.argst
  /\ rescale_states' = d.resc
  /\ work_list' = d.wl
  /\ quantized_' = d.quantized
  /\ weights_' = d.weights
  /\ optimized_weights_' = d.optw
  /\ args_' = d.args
  /\ log' = d.log

\* a driver is constructed on a function; Run has not started
Init ==
  /\ graph \in Graphs
  /\ cfg \in Configs
  /\ states = <<>>
  /\ value_to_state = EmptyMap
  /\ operand_states = EmptyMap
  /\ result_states = EmptyMap
  /\ arg_states = EmptyMap
  /\ rescale_states = <<>>
  /\ work_list = <<>>
  /\ quantized_ = {}
  /\ weights_ = {}
  /\ optimized_weights_ = EmptyMap
  /\ args_ = <<>>
  /\ changed = FALSE
  /\ pc = "start"
  /\ run = 1
  /\ log = <<>>
  /\ graph0 = graph
  /\ states0 = <<>>
  /\ phases = <<>>
  /\ loop = [enqueued |-> 0, iters |-> 0, deferred |-> {}, decided |-> {}]

\* Run, line 869
RunInitialize ==
  /\ pc = "start"
  /\ LET d == Initialize(Drv)
     IN /\ Becomes(d)
        /\ states0' = d.states
        /\ loop' = [enqueued |-> Len(d.wl), iters |-> 0, deferred |-> {}, decided |-> {}]
  /\ pc' = "propagate"
  /\ phases' = Append(phases, "Initialize")
  /\ UNCHANGED <<changed, cfg, run, graph0>>

\* one iteration of the loop of PropagateParamsAndReturnIfChanged
PropagateLoop ==
  /\ pc = "propagate"
  /\ work_list # <<>>
  /\ LET s == PropagateStep([d |-> Drv, changed |-> changed], cfg)
         op == work_list[Len(work_list)]
         visited == op \notin quantized_
     IN /\ Becomes(s.d) /\ changed' = s.changed
        /\ loop' = [loop EXCEPT
                      !.iters = IF @ < MaxIters THEN @ + 1 ELSE @,
                      !.deferred = IF visited /\ op \notin s.d.quantized
                                   THEN @ \cup {op} ELSE @,
                      !.decided = IF visited /\ op \in s.d.quantized
                                  THEN @ \cup {op} ELSE @]
  /\ UNCHANGED <<pc, cfg, run, graph0, states0, phases>>

\* variant of Run that calls Finalize whatever Propagate returned
PropagateReturn_Always ==
  /\ pc = "propagate"
  /\ work_list = <<>>
  /\ pc' = "finalize"
  /\ log' = <<>>
  /\ phases' = Append(phases, "Propagate")
  /\ UNCHANGED <<graph, states, value_to_state, operand_states, result_states,
                 arg_states, rescale_states, work_list, quantized_, weights_,
                 optimized_weights_, args_, changed, cfg, run, graph0, states0,
                 loop>>

\* the loop ends; Run, line 870
PropagateReturn ==
  /\ pc = "propagate"
  /\ work_list = <<>>
  /\ pc' = IF changed THEN "finalize" ELSE "done"
  /\ log' = <<>>
  /\ phases' = Append(phases, "Propagate")
  /\ UNCHANGED <<graph, states, value_to_state, operand_states, result_states,
                 arg_states, rescale_states, work_list, quantized_, weights_,
                 optimized_weights_, args_, changed, cfg, run, graph0, states0,
                 loop>>

\* Run, line 871
RunFinalize ==
  /\ pc = "finalize"
  /\ Becomes(Finalize(Drv))
  /\ pc' = "done"
  /\ phases' = Append(phases, "Finalize")
  /\ UNCHANGED <<changed, cfg, run, graph0, states0, loop>>

\* ApplyQuantizationParamsPropagation is applied to the function again: a
\* new driver is constructed on the graph the previous Run left
RunAgain ==
  /\ pc = "done"
  /\ run < MaxRuns
  /\ Becomes(NewDriver(graph))
  /\ changed' = FALSE
  /\ pc' = "start"
  /\ run' = run + 1
  /\ graph0' = graph
  /\ states0' = <<>>
  /\ loop' = [enqueued |-> 0, iters |-> 0, deferred |-> {}, decided |-> {}]
  /\ UNCHANGED <<cfg, phases>>

Next ==
  \/ RunInitialize
  \/ PropagateLoop
  \/ PropagateReturn
  \/ RunFinalize
  \/ RunAgain

Spec == Init /\ [][Next]_vars

\* the loop of PropagateParamsAndReturnIfChanged runs on while the work list
\* is not empty, nothing suspends it: weak fairness of PropagateLoop, that is
\* WF_vars(PropagateLoop), written with the enabling condition of the action
LoopFairness ==
  \/ []<>(~(pc = "propagate" /\ work_list # <<>>))
  \/ []<><<PropagateLoop>>_vars

LiveSpec == Spec /\ LoopFairness

(***************************************************************************)
(* Properties.                                                             *)
(***************************************************************************)
StateIdx == 1..Len(states)

\* the Value an operand position reads in the current graph
OperandValue(p) == graph.ops[p.op].operands[p.idx]

\* an assignment that met a state holding other params, without override
IsConflict(e) == e.before # NoParams /\ e.params # e.before /\ ~e.override

\* C1 as stated: during PropagateParamsAndReturnIfChanged no step replaces
\* the non-empty params of a state by other params (write-once).
C1_WriteOnce ==
  [][pc = "propagate" =>
       \A i \in StateIdx :
          states[i].params # NoParams => states'[i].params = states[i].params]_vars

\* C1 amended: during propagation the non-empty params of a state are never
\* cleared, and they are replaced only in a mutable state and only by the
\* filter adjustment of SetBiasParamsWithAdjustments, the SetOperandParams
\* call with override = true on the affine (filter) operand; every other
\* assignment changes a state from empty to a concrete value or not at all.
C1_WriteOnceButFilterOverride ==
  [][pc = "propagate" =>
       \A i \in StateIdx :
          /\ states[i].params # NoParams => states'[i].params # NoParams
          /\ (states[i].params # NoParams /\ states'[i].params # states[i].params)
               => /\ ~states[i].immutable
                  /\ \E k \in 1..Len(log') :
                        /\ log'[k].fn = "SetOperandParams"
                        /\ log'[k].override
                        /\ log'[k].si = i
                        /\ log'[k].after = states'[i].params
                        /\ graph.ops[log'[k].op].affine = log'[k].index]_vars

\* a step that assigned params to an empty state and in which the filter
\* adjustment replaced non-empty params
C1_Witness ==
  /\ \E k \in 1..Len(log) : log[k].before = NoParams /\ log[k].after = log[k].params
  /\ \E k \in 1..Len(log) :
        log[k].override /\ log[k].before # NoParams /\ log[k].after # log[k].before

\* C2: a state whose immutable flag is true holds, at every point of the run
\* and so when Propagate and Finalize end, the params its Value's type
\* encoded when the state was created.
C2_ImmutableParamsKept ==
  \A v \in DOMAIN value_to_state :
     LET st == states[value_to_state[v]]
     IN st.immutable =>
          /\ st.params # NoParams
          /\ st.params = getQuantizedElementType(ValueType(graph, v))

\* a finished Run in which an immutable state was proposed other params
C2_Witness ==
  /\ pc = "done"
  /\ phases = <<"Initialize", "Propagate", "Finalize">>
  /\ \E i \in StateIdx : states[i].immutable /\ rescale_states[i] # <<>>

\* C3 as stated: every conflicting assignment leaves the stored params and
\* appends exactly one RequantizeState whose target is the proposal.
C3_ConflictAppendsOne ==
  \A k \in 1..Len(log) :
     IsConflict(log[k]) =>
       /\ log[k].after = log[k].before
       /\ Len(log[k].resc_after) = Len(log[k].resc_before) + 1
       /\ SubSeq(log[k].resc_after, 1, Len(log[k].resc_before)) = log[k].resc_before
       /\ log[k].resc_after[Len(log[k].resc_after)].params = log[k].params

\* the requantize list has an entry for the target already
HasTarget(rescales, params) == \E j \in 1..Len(rescales) : rescales[j].params = params

\* C3 amended: a conflicting assignment never modifies the stored params; it
\* appends exactly one RequantizeState whose target is the proposal, except
\* that an operand assignment whose target is already queued on the Value
\* appends no entry and adds its (operation, operand index) to the users of
\* the first entry with that target.
C3_ConflictAppendsOrMerges ==
  \A k \in 1..Len(log) :
     LET e == log[k]
         n == Len(e.resc_before)
         merged == e.fn = "SetOperandParams" /\ HasTarget(e.resc_before, e.params)
     IN IsConflict(e) =>
          /\ e.after = e.before
          /\ e.ret
          /\ ~merged =>
               /\ Len(e.resc_after) = n + 1
               /\ SubSeq(e.resc_after, 1, n) = e.resc_before
               /\ e.resc_after[n + 1].params = e.params
          /\ merged =>
               /\ Len(e.resc_after) = n
               /\ \E j \in 1..n :
                     /\ e.resc_before[j].params = e.params
                     /\ \A l \in 1..(j - 1) : e.resc_before[l].params # e.params
                     /\ e.resc_after =
                          [e.resc_before EXCEPT ![j].users = Append(@, Use(e.op, e.index))]

\* a step with a conflict that appended an entry and a conflict that met a
\* queued target
C3_Witness ==
  /\ \E k \in 1..Len(log) :
        IsConflict(log[k]) /\ Len(log[k].resc_after) = Len(log[k].resc_before) + 1
  /\ \E k \in 1..Len(log) :
        IsConflict(log[k]) /\ Len(log[k].resc_after) = Len(log[k].resc_before)

\* C4: after Initialize, operand, result and argument positions that refer
\* to the identical Value have the same state index, so what is assigned
\* through one is read through the others.
C4_Sharing ==
  pc # "start" =>
    /\ \A p, q \in DOMAIN operand_states :
          OperandValue(p) = OperandValue(q) =>
            /\ operand_states[p] = operand_states[q]
            /\ GetOperandQuantState(Drv, p.op, p.idx) = GetOperandQuantState(Drv, q.op, q.idx)
    /\ \A p \in DOMAIN operand_states, q \in DOMAIN result_states :
          OperandValue(p) = Res(q.op, q.idx) => operand_states[p] = result_states[q]
    /\ \A p \in DOMAIN operand_states, a \in DOMAIN arg_states :
          OperandValue(p) = a => operand_states[p] = arg_states[a]

\* a step assigned params to an empty state through one operand position and
\* another position of the same Value reads them
C4_Witness ==
  /\ pc = "propagate"
  /\ \E k \in 1..Len(log) : \E q \in DOMAIN operand_states :
        /\ log[k].fn = "SetOperandParams"
        /\ log[k].before = NoParams
        /\ q # Use(log[k].op, log[k].index)
        /\ OperandValue(q) = OperandValue(Use(log[k].op, log[k].index))
        /\ GetOperandQuantState(Drv, q.op, q.idx).params = log[k].params

(***************************************************************************)
(* C5.  The priority list of section 4.4, written from its seven rules.    *)
(***************************************************************************)
Settled(st) == st.immutable
Propagated(st) == ~st.immutable /\ st.params # NoParams

OperandStatesOf(op) == [i \in 1..Len(graph.ops[op].operands) |-> states[operand_states[Use(op, i)]]]
ResultStatesOf(op) == [i \in 1..Len(graph.ops[op].rtypes) |-> states[result_states[Use(op, i)]]]

FirstSettled(sts) == sts[CHOOSE i \in 1..Len(sts) :
                          Settled(sts[i]) /\ \A j \in 1..(i - 1) : ~Settled(sts[j])]
FirstPropagated(sts) == sts[CHOOSE i \in 1..Len(sts) :
                          Propagated(sts[i]) /\ \A j \in 1..(i - 1) : ~Propagated(sts[j])]

RuleOf(op) ==
  LET os == OperandStatesOf(op)
      rs == ResultStatesOf(op)
      all == os \o rs
  IN IF Len(os) = 1 /\ Settled(os[1]) THEN 1
     ELSE IF Len(rs) = 1 /\ Settled(rs[1]) THEN 2
     ELSE IF \E i \in 1..Len(all) : Settled(all[i]) THEN 3
     ELSE IF Len(os) = 1 /\ Propagated(os[1]) THEN 4
     ELSE IF Len(rs) = 1 /\ Propagated(rs[1]) THEN 5
     ELSE IF \E i \in 1..Len(all) : Propagated(all[i]) THEN 6
     ELSE 7

SevenRules(op) ==
  LET os == OperandStatesOf(op)
      rs == ResultStatesOf(op)
      r == RuleOf(op)
  IN IF r = 1 THEN os[1].params
     ELSE IF r = 2 THEN rs[1].params
     ELSE IF r = 3 THEN FirstSettled(os \o rs).params
     ELSE IF r = 4 THEN os[1].params
     ELSE IF r = 5 THEN rs[1].params
     ELSE IF r = 6 THEN FirstPropagated(os \o rs).params
     ELSE NoParams

\* the same-scale operations whose operands and results all have states
SameScaleOps ==
  {op \in 1..Len(graph.ops) :
     /\ graph.ops[op].same_scale
     /\ \A i \in 1..Len(graph.ops[op].operands) : Use(op, i) \in DOMAIN operand_states
     /\ \A i \in 1..Len(graph.ops[op].rtypes) : Use(op, i) \in DOMAIN result_states}

\* a two-result operation with exactly one immutable operand state, exactly
\* one mutable non-empty result state and no immutable result state
TwoResultCase(op) ==
  LET os == OperandStatesOf(op)
      rs == ResultStatesOf(op)
  IN /\ Len(rs) = 2
     /\ Cardinality({i \in 1..Len(os) : Settled(os[i])}) = 1
     /\ Cardinality({i \in 1..Len(rs) : Propagated(rs[i])}) = 1
     /\ \A i \in 1..Len(rs) : ~Settled(rs[i])

\* C5: in every state of the driver and for every same-scale operation,
\* GetQuantParamsForSameScaleConstraint returns the params selected by the
\* seven-rule priority list; with one immutable operand state and one mutable
\* result state on a two-result operation it returns the immutable operand's
\* params.
C5_SevenRulePriority ==
  pc # "start" =>
    \A op \in SameScaleOps :
      /\ GetQuantParamsForSameScaleConstraint(Drv, op) = SevenRules(op)
      /\ TwoResultCase(op) =>
           \E i \in 1..Len(graph.ops[op].operands) :
              /\ OperandStatesOf(op)[i].immutable
              /\ GetQuantParamsForSameScaleConstraint(Drv, op) = OperandStatesOf(op)[i].params

\* witness: a two-result same-scale operation with an immutable operand and a
\* mutable result holding different params, for which the operand's are chosen
C5_Witness ==
  /\ pc = "propagate"
  /\ \E op \in SameScaleOps :
        /\ TwoResultCase(op)
        /\ \E r \in 1..2 : /\ Propagated(ResultStatesOf(op)[r])
                           /\ ResultStatesOf(op)[r].params
                                # GetQuantParamsForSameScaleConstraint(Drv, op)
        /\ GetQuantParamsForSameScaleConstraint(Drv, op) # NoParams

\* for each rule, a state in which it decides some operation
C5_RuleApplies(n) == pc = "propagate" /\ \E op \in SameScaleOps : RuleOf(op) = n
C5_Rule1 == C5_RuleApplies(1)
C5_Rule2 == C5_RuleApplies(2)
C5_Rule3 == C5_RuleApplies(3)
C5_Rule4 == C5_RuleApplies(4)
C5_Rule5 == C5_RuleApplies(5)
C5_Rule6 == C5_RuleApplies(6)
C5_Rule7 == C5_RuleApplies(7)

(***************************************************************************)
(* C6.  End to end: a two-operand same-scale operation.                    *)
(***************************************************************************)
\* the operations of the function the driver was constructed on that are
\* neither quantize / dequantize markers nor the terminator
PlainOps0 == {o \in 1..Len(graph0.ops) : graph0.ops[o].kind \notin {"q", "dq", "term"}}

\* operation a is the only operation of the function, it is a two-operand,
\* one-result same-scale operation, and after Initialize the state of its
\* operand i holds {scale = 0.5, zp = 0} (carried by the operand's Value)
\* while the states of its other operand and of its result are empty
AddScenario(a, i) ==
  /\ run = 1
  /\ states0 # <<>>
  /\ PlainOps0 = {a}
  /\ graph0.ops[a].same_scale
  /\ Len(graph0.ops[a].operands) = 2
  /\ Len(graph0.ops[a].rtypes) = 1
  /\ states0[operand_states[Use(a, i)]] = [params |-> P05, immutable |-> TRUE]
  /\ states0[operand_states[Use(a, 3 - i)]].params = NoParams
  /\ states0[result_states[Use(a, 1)]].params = NoParams

\* C6: for a two-operand same-scale operation one of whose operands carries
\* {scale = 0.5, zp = 0} before propagation while the other operand and the
\* result are unset, after Initialize and one Propagate both operand states
\* and the result state hold {scale = 0.5, zp = 0}.
C6_AddEndToEnd ==
  \A a \in PlainOps0 : \A i \in 1..2 :
    (AddScenario(a, i) /\ pc \in {"finalize", "done"}) =>
       /\ states[operand_states[Use(a, 1)]].params = P05
       /\ states[operand_states[Use(a, 2)]].params = P05
       /\ states[result_states[Use(a, 1)]].params = P05
       /\ changed

\* witness: the scenario with the second operand carrying the params, after
\* Propagate has returned and before Finalize
C6_Witness ==
  /\ pc = "finalize"
  /\ \E a \in PlainOps0 :
        /\ AddScenario(a, 2)
        /\ states[operand_states[Use(a, 1)]].params = P05
        /\ states[result_states[Use(a, 1)]].params = P05

(***************************************************************************)
(* C7.  The guard against the overflow of the bias.                        *)
(***************************************************************************)
\* the operation the next iteration of the loop processes, 0 if it only
\* pops an operation that has been quantized, or a constant
Processed ==
  IF pc = "propagate" /\ work_list # <<>>
  THEN LET op == work_list[Len(work_list)]
       IN IF op \in quantized_ \/ IsConstantOp(graph, op) THEN 0 ELSE op
  ELSE 0

\* the bias declarations of an operation: [b, nb] records
BiasDecls(op) == {graph.ops[op].biases[j] : j \in 1..Len(graph.ops[op].biases)}

BiasContent(op, bd) == graph.ops[DefiningConstant(graph, graph.ops[op].operands[bd.b])].content

\* the params proposed for a bias
Proposal(op, bd) == GetBiasParams(Drv, op, bd.b, bd.nb)

\* the operation the loop processes next declares the bias bd; neither the
\* same-scale nor the fixed-range assignment precedes the solving of the
\* bias; the bias is a constant whose state is empty, the params proposed
\* for it are p, a 32-bit per-tensor type with scale s, and B / s > kBiasMax
Overflows(op, bd, p) ==
  /\ op = Processed
  /\ bd \in BiasDecls(op)
  /\ ~graph.ops[op].same_scale /\ ~graph.ops[op].has_fixed
  /\ Len(graph.ops[op].biases) = 1
  /\ DefiningConstant(graph, graph.ops[op].operands[bd.b]) # 0
  /\ states[operand_states[Use(op, bd.b)]].params = NoParams
  /\ p = GetBiasParams(Drv, op, bd.b, bd.nb)
  /\ p # NoParams
  /\ BiasContent(op, bd).maxabs * p.sd > kBiasMax * p.sn

\* the scale of params q is n / m
ScaleIs(q, n, m) == q # NoParams /\ q.sn = n \div Gcd(n, m) /\ q.sd = m \div Gcd(n, m)

\* the bias is assigned the scale B / kBiasMax: it is the argument of the
\* only assignment to the bias operand, and the state of the operand holds it
BiasGuarded(op, bd) ==
  /\ ScaleIs(states'[operand_states'[Use(op, bd.b)]].params,
             BiasContent(op, bd).maxabs, kBiasMax)
  /\ \A k \in 1..Len(log') :
        (log'[k].fn = "SetOperandParams" /\ log'[k].op = op /\ log'[k].index = bd.b)
           => ScaleIs(log'[k].params, BiasContent(op, bd).maxabs, kBiasMax)

\* the state of filter operand f gets new_bias_scale / input_scale, where
\* the input is operand x
FilterAdjusted(op, bd, f, x) ==
  LET in == states[operand_states[Use(op, x)]].params
  IN ScaleIs(states'[operand_states'[Use(op, f)]].params,
             BiasContent(op, bd).maxabs * in.sd, kBiasMax * in.sn)

\* C7 as stated: for every operation that declares a bias operand, a bias
\* with maximum absolute value B whose proposed scale s has B / s >
\* INT32_MAX / 2 is assigned the scale B / (INT32_MAX / 2), and the state of
\* the paired filter operand, if the operation has one, gets
\* new_bias_scale / input_scale.
C7_GuardForEveryBiasOp ==
  [][\A op \in 1..Len(graph.ops) : \A bd \in BiasDecls(op) :
       Overflows(op, bd, Proposal(op, bd)) =>
         /\ BiasGuarded(op, bd)
         /\ \A f \in {graph.ops[op].affine} \ {0} : \A x \in {bd.nb[1], bd.nb[2]} \ {f} :
               FilterAdjusted(op, bd, f, x)]_vars

\* the conditions under which the driver checks the scale of the bias: the
\* operation implements the affine interface with filter operand f, bias and
\* filter are constants, the operation has two non-bias operands, one of
\* them the filter and the other the input x, input and filter params are
\* 8-bit and the proposal is 32-bit
AffineCase(op, bd, p, f, x) ==
  /\ f = graph.ops[op].affine /\ f # 0
  /\ Len(bd.nb) = 2
  /\ DefiningConstant(graph, graph.ops[op].operands[f]) # 0
  /\ \/ (f = bd.nb[1] /\ x = bd.nb[2])
     \/ (f = bd.nb[2] /\ x = bd.nb[1] /\ f # bd.nb[1])
  /\ states[operand_states[Use(op, x)]].params.w = 8
  /\ states[operand_states[Use(op, f)]].params.w = 8
  /\ p.w = 32

\* C7 amended: the guard acts for the operations that implement the affine
\* interface with a constant filter and a constant bias, two non-bias
\* operands, 8-bit input and filter params and a 32-bit proposal: then the
\* bias is assigned the scale B / kBiasMax and the state of the filter
\* operand gets new_bias_scale / input_scale.
C7_GuardForAffineOps ==
  [][\A op \in 1..Len(graph.ops) : \A bd \in BiasDecls(op) :
        \A f \in 1..Len(graph.ops[op].operands) : \A x \in 1..Len(graph.ops[op].operands) :
       (Overflows(op, bd, Proposal(op, bd)) /\ AffineCase(op, bd, Proposal(op, bd), f, x)) =>
         /\ BiasGuarded(op, bd)
         /\ FilterAdjusted(op, bd, f, x)]_vars

\* witness: the guard has just acted: the log of the last iteration holds the
\* assignment of B / kBiasMax to a bias whose state was empty, and the
\* overriding assignment to the filter, whose state held other params
C7_Witness ==
  /\ pc = "propagate"
  /\ \E k1, k2 \in 1..Len(log) :
        /\ k1 < k2
        /\ log[k1].op = log[k2].op
        /\ graph.ops[log[k1].op].affine = log[k2].index
        /\ \E bd \in BiasDecls(log[k1].op) :
              /\ log[k1].index = bd.b
              /\ ScaleIs(log[k1].params, BiasContent(log[k1].op, bd).maxabs, kBiasMax)
        /\ log[k1].before = NoParams /\ log[k1].after = log[k1].params
        /\ log[k2].override
        /\ log[k2].before # NoParams
        /\ log[k2].after = log[k2].params /\ log[k2].after # log[k2].before

(***************************************************************************)
(* C8.  Duplication of a constant used as a weight and as a propagated     *)
(* operand.                                                                *)
(***************************************************************************)
\* before Initialize: c is a float constant with exactly two uses, one of
\* them weight-like and the other propagated (a bias, an operand of a
\* same-scale operation, or the input of a quantize op)
WeightAndPropagated(c) ==
  /\ pc = "start"
  /\ IsConstantOp(graph, c)
  /\ graph.ops[c].rtypes[1].e = "f"
  /\ Len(graph.uses[Res(c, 1)]) = 2
  /\ IsWeightUse(graph, graph.uses[Res(c, 1)][1])
       # IsWeightUse(graph, graph.uses[Res(c, 1)][2])

\* after Initialize: the constant that feeds use u, and the state u resolves to
FeedsAfter(u) == DefiningOp(graph'.ops[u.op].operands[u.idx])
StateAfter(u) == IF u \in DOMAIN operand_states' THEN operand_states'[u]
                 ELSE result_states'[Use(FeedsAfter(u), 1)]

\* the two uses of c read two distinct constant nodes with the content of c,
\* each with one use, and resolve to two different states
Duplicated(c) ==
  LET u1 == graph.uses[Res(c, 1)][1]
      u2 == graph.uses[Res(c, 1)][2]
  IN /\ FeedsAfter(u1) # 0 /\ FeedsAfter(u2) # 0
     /\ FeedsAfter(u1) # FeedsAfter(u2)
     /\ \A u \in {u1, u2} :
           /\ IsConstantOp(graph', FeedsAfter(u))
           /\ graph'.ops[FeedsAfter(u)].content = graph.ops[c].content
           /\ graph'.uses[Res(FeedsAfter(u), 1)] = <<u>>
           /\ Use(FeedsAfter(u), 1) \in DOMAIN result_states'
           /\ StateAfter(u) = result_states'[Use(FeedsAfter(u), 1)]
     /\ StateAfter(u1) # StateAfter(u2)

\* C8 as stated: every float constant with exactly two uses, one weight-like
\* and one propagated, is after PreprocessConstantOps and SetupAllStates
\* represented by two distinct constant nodes, one per use, and the two uses
\* resolve to two different states.
C8_TwoUsesDuplicated ==
  [][\A c \in 1..Len(graph.ops) :
       (WeightAndPropagated(c) /\ pc' = "propagate") => Duplicated(c)]_vars

\* C8 amended: the same for a constant whose first element is finite.
C8_FiniteTwoUsesDuplicated ==
  [][\A c \in 1..Len(graph.ops) :
       (WeightAndPropagated(c) /\ graph.ops[c].content.fin[1] /\ pc' = "propagate")
          => Duplicated(c)]_vars

\* witness: Initialize has just run on a function in which a constant with a
\* finite first element fed a weight operand and a propagated operand; the
\* function now has one more constant and the two operands read different ones
C8_Witness ==
  /\ pc = "propagate" /\ phases = <<"Initialize">> /\ quantized_ = {}
  /\ Len(graph.ops) = Len(graph0.ops) + 1
  /\ \E c \in 1..Len(graph0.ops) :
        /\ IsConstantOp(graph0, c)
        /\ graph0.ops[c].content.fin[1]
        /\ Len(graph0.uses[Res(c, 1)]) = 2
        /\ IsWeightUse(graph0, graph0.uses[Res(c, 1)][1])
             # IsWeightUse(graph0, graph0.uses[Res(c, 1)][2])
        /\ LET u1 == graph0.uses[Res(c, 1)][1]
               u2 == graph0.uses[Res(c, 1)][2]
           IN /\ graph.ops[u1.op].operands[u1.idx] # graph.ops[u2.op].operands[u2.idx]
              /\ IsConstantOp(graph, DefiningOp(graph.ops[u1.op].operands[u1.idx]))
              /\ IsConstantOp(graph, DefiningOp(graph.ops[u2.op].operands[u2.idx]))

(***************************************************************************)
(* C9.  Idempotence.                                                       *)
(***************************************************************************)
\* the first Run was complete: Initialize, Propagate and Finalize
FirstRunComplete ==
  Len(phases) >= 3 /\ SubSeq(phases, 1, 3) = <<"Initialize", "Propagate", "Finalize">>

\* C9: a second Run on the graph a first complete Run produced reports no
\* change and leaves the graph as it found it.
C9_Idempotent ==
  (run = 2 /\ FirstRunComplete) => (~changed /\ pc # "finalize" /\ graph = graph0)

\* the second Run on a finalized graph has ended
C9_SecondRunDone == run = 2 /\ FirstRunComplete /\ pc = "done"

(***************************************************************************)
(* C10.  The order of the phases of Run.                                   *)
(***************************************************************************)
\* the phases of the current Run that have returned
RunPhases ==
  IF pc = "start" THEN <<>>
  ELSE LET k == CHOOSE i \in 1..Len(phases) :
                   /\ phases[i] = "Initialize"
                   /\ \A j \in (i + 1)..Len(phases) : phases[j] # "Initialize"
       IN SubSeq(phases, k, Len(phases))

\* the quantize, dequantize and requantize ops of a function
Markers(g) == {o \in 1..Len(g.ops) : g.ops[o].kind \in {"q", "dq"}}

\* C10: in a Run, Initialize runs exactly once and before Propagate;
\* Finalize runs after Propagate and only if Propagate reported a change;
\* when Propagate reports no change, the Run ends without Finalize and no
\* quantize, dequantize or requantize op has been inserted.
C10_PhaseOrder ==
  /\ pc = "propagate" => RunPhases = <<"Initialize">>
  /\ pc = "finalize" => (RunPhases = <<"Initialize", "Propagate">> /\ changed)
  /\ pc = "done" =>
       \/ RunPhases = <<"Initialize", "Propagate", "Finalize">> /\ changed
       \/ /\ RunPhases = <<"Initialize", "Propagate">>
          /\ ~changed
          /\ Markers(graph) = Markers(graph0)
  /\ pc \in {"propagate", "finalize"} => Markers(graph) = Markers(graph0)

\* witness: a first Run with Finalize, then a second Run in which Propagate
\* reported no change and Finalize did not run
C10_Witness ==
  /\ pc = "done" /\ run = 2 /\ ~changed
  /\ phases = <<"Initialize", "Propagate", "Finalize", "Initialize", "Propagate">>
  /\ Markers(graph) # {}

(***************************************************************************)
(* C11.  Termination of the loop of PropagateParamsAndReturnIfChanged.     *)
(***************************************************************************)
\* the operations SetupAllStates registered
RegisteredOps ==
  {o \in 1..Len(graph.ops) :
     \/ \E i \in 1..Len(graph.ops[o].operands) : Use(o, i) \in DOMAIN operand_states
     \/ \E i \in 1..Len(graph.ops[o].rtypes) : Use(o, i) \in DOMAIN result_states}

\* C11: once Propagate has started, the loop reaches an empty work list,
\* also when operations are deferred and when assignments add operations to
\* the work list.
C11_Terminates == (pc = "propagate") ~> (pc = "propagate" /\ work_list = <<>>)

\* witness: the work list is empty after more iterations than SetupAllStates
\* enqueued operations, and an operation is left deferred
C11_Witness ==
  /\ pc = "propagate" /\ work_list = <<>>
  /\ loop.iters > loop.enqueued
  /\ \E o \in RegisteredOps : graph.ops[o].same_scale /\ o \notin quantized_

(***************************************************************************)
(* C12.  How the work list changes during Propagate.                       *)
(***************************************************************************)
\* the operation of each use, in order
RECURSIVE UsersOf(_)
UsersOf(users) ==
  IF users = <<>> THEN <<>> ELSE <<Head(users).op>> \o UsersOf(Tail(users))

\* an assignment of the history stored its params in the state
Stored(e) == e.after # e.before

\* what the assignments of the history that stored params put on the work
\* list: the users of the result, the operation that defines the operand
RECURSIVE PushedBy(_, _)
PushedBy(lg, g) ==
  IF lg = <<>> THEN <<>>
  ELSE LET e == Head(lg)
           def == DefiningOp(g.ops[e.op].operands[e.index])
           here == IF ~Stored(e) THEN <<>>
                   ELSE IF e.fn = "SetResultParams" THEN UsersOf(g.uses[Res(e.op, e.index)])
                   ELSE IF def # 0 THEN <<def>> ELSE <<>>
       IN here \o PushedBy(Tail(lg), g)

ItersBelowCap == loop.iters < MaxIters

(***************************************************************************)
(* C13.  Deferral instead of failure.                                      *)
(***************************************************************************)
\* the indices of the operand and result states of an operation
OpStates(o) ==
  {operand_states[Use(o, i)] : i \in 1..Len(graph.ops[o].operands)} \cup
  {result_states[Use(o, i)] : i \in 1..Len(graph.ops[o].rtypes)}

\* the registered operations, constants apart, that the loop left deferred
Undecided == {o \in RegisteredOps : ~IsConstantOp(graph, o) /\ o \notin quantized_}

\* the operation the loop processes next is a same-scale operation of which
\* no operand or result state holds params
SameScaleDeferral ==
  /\ Processed # 0
  /\ graph.ops[Processed].same_scale
  /\ \A si \in OpStates(Processed) : IsEmptyParams(states[si].params)

\* the operation the loop processes next is not a same-scale operation and
\* no params are proposed for any of its biases
BiasDeferral ==
  /\ Processed # 0
  /\ ~graph.ops[Processed].same_scale
  /\ BiasDecls(Processed) # {}
  /\ \A bd \in BiasDecls(Processed) : IsEmptyParams(Proposal(Processed, bd))

\* the Values whose state is empty
EmptyValues == {v \in DOMAIN value_to_state : IsEmptyParams(states[value_to_state[v]].params)}

C13_SameScaleDeferred ==
  /\ pc = "propagate" /\ work_list = <<>> /\ loop.iters > 0
  /\ \E o \in Undecided : graph.ops[o].same_scale

(***************************************************************************)
(* C14.  The immutable flag of a state.                                    *)
(***************************************************************************)
\* the Values for which the state si was created or is looked up
ValuesOf(v2s, si) == {v \in DOMAIN v2s : v2s[v] = si}

\* state st is what a Value of type t gets at creation: immutable with the
\* params of the type when the type is quantized, mutable otherwise; a
\* mutable state is empty when Initialize ends (fresh), while the state of a
\* constant duplicated during Propagate is assigned in the step that creates it
CreatedFor(st, t, fresh) ==
  /\ st.immutable = (t.e = "q")
  /\ t.e = "q" => (st.params = t.p /\ ~IsEmptyParams(st.params))
  /\ (t.e # "q" /\ fresh) => IsEmptyParams(st.params)

\* C14: in every step of a Run, a state that is created is immutable iff the
\* type of its Value is quantized (then it holds the params of the type, and
\* else it is empty), and the flag of an existing state does not change.
C14_ImmutableFixedAtCreation ==
  [][pc' # "start" =>
       /\ Len(states') >= Len(states)
       /\ \A si \in 1..Len(states) : states'[si].immutable = states[si].immutable
       /\ \A si \in (Len(states) + 1)..Len(states') :
            /\ ValuesOf(value_to_state', si) # {}
            /\ \A v \in ValuesOf(value_to_state', si) :
                 CreatedFor(states'[si], ValueType(graph', v), pc = "start")]_vars

\* witness: Propagate has stored params in a state created mutable, next to
\* a state created immutable for a Value of quantized type
C14_Witness ==
  /\ pc = "propagate" /\ states0 # <<>>
  /\ \E si \in 1..Len(states0) :
       /\ ~states0[si].immutable /\ IsEmptyParams(states0[si].params)
       /\ ~states[si].immutable /\ ~IsEmptyParams(states[si].params)
  /\ \E si \in 1..Len(states0) :
       /\ states[si].immutable
       /\ \E v \in ValuesOf(value_to_state, si) : ValueType(graph, v).e = "q"

(***************************************************************************)
(* C15.  An assignment of the params a state already holds.                *)
(***************************************************************************)
\* the assignments of the last iteration
Assignments == {log[k] : k \in 1..Len(log)}

\* C15: SetOperandParams and SetResultParams called with the params the
\* state holds return false and leave the state, every requantize list, the
\* work list and the visited set, the whole driver, as they were.
C15_EqualIsNoOp ==
  \A e \in Assignments :
    e.params = e.before =>
      /\ ~e.ret
      /\ e.after = e.before
      /\ e.resc_after = e.resc_before
      /\ e.resc_same
      /\ e.same

\* witness: both functions have been called with the non-empty params the
\* state held
C15_Witness ==
  /\ \E e \in Assignments :
       e.fn = "SetOperandParams" /\ e.params = e.before /\ ~IsEmptyParams(e.params)
  /\ \E e \in Assignments :
       e.fn = "SetResultParams" /\ e.params = e.before /\ ~IsEmptyParams(e.params)

(***************************************************************************)
(* C16.  An assignment to an empty state.                                  *)
(***************************************************************************)
\* C16: SetOperandParams and SetResultParams called with non-empty params on
\* a state that is empty store the params, add no requantize state to any
\* list and return true.
C16_EmptyStateStores ==
  \A e \in Assignments :
    (IsEmptyParams(e.before) /\ ~IsEmptyParams(e.params)) =>
      /\ e.ret
      /\ e.after = e.params
      /\ e.resc_after = e.resc_before
      /\ e.resc_same

\* witness: both functions have stored params in an empty state
C16_Witness ==
  /\ \E e \in Assignments :
       /\ e.fn = "SetOperandParams" /\ ~e.override
       /\ IsEmptyParams(e.before) /\ ~IsEmptyParams(e.params) /\ e.after = e.params
  /\ \E e \in Assignments :
       /\ e.fn = "SetResultParams"
       /\ IsEmptyParams(e.before) /\ ~IsEmptyParams(e.params) /\ e.after = e.params

(***************************************************************************)
(* C17.  The position and the users of a requantize state.                 *)
(* RequantizeState::ON_OUTPUT is the requantize in front of a consumer     *)
(* ("before-consumer"), ON_INPUT the one behind the producer               *)
(* ("after-producer"), NO_REQUANTIZE the position "none".                  *)
(***************************************************************************)
\* the assignment appended a requantize state to the list of its state
Created(e) == Len(e.resc_after) = Len(e.resc_before) + 1

NewRequantize(e) == e.resc_after[Len(e.resc_after)]

\* C17: a requantize state created by SetOperandParams has position
\* ON_OUTPUT, the params asked for and the (op, index) of the caller as its
\* one user; one created by SetResultParams has position ON_INPUT, the
\* params asked for and no user; no stored requantize state has position
\* NO_REQUANTIZE.
C17_ConflictPosition ==
  /\ \A e \in Assignments :
       Created(e) =>
         /\ IsConflict(e)
         /\ NewRequantize(e).params = e.params
         /\ e.fn = "SetOperandParams" =>
              /\ NewRequantize(e).pos = "ON_OUTPUT"
              /\ NewRequantize(e).users = <<Use(e.op, e.index)>>
         /\ e.fn = "SetResultParams" =>
              /\ NewRequantize(e).pos = "ON_INPUT"
              /\ NewRequantize(e).users = <<>>
  /\ \A si \in 1..Len(rescale_states) : \A j \in 1..Len(rescale_states[si]) :
       rescale_states[si][j].pos \in {"ON_INPUT", "ON_OUTPUT"}

\* witness: in one iteration a conflicting operand assignment and a
\* conflicting result assignment each created a requantize state
C17_Witness ==
  /\ \E e \in Assignments : e.fn = "SetOperandParams" /\ Created(e)
  /\ \E e \in Assignments : e.fn = "SetResultParams" /\ Created(e)

(***************************************************************************)
(* C18, C19.  What GetQuantParamsForSameScaleConstraint returns.           *)
(***************************************************************************)
\* the operand and result states of a same-scale operation
StatesOfOp(op) == {states[si] : si \in OpStates(op)}

\* the params GetQuantParamsForSameScaleConstraint returns for op now
Decision(op) == GetQuantParamsForSameScaleConstraint(Drv, op)

\* C18: when a state of a same-scale operation is immutable, the params
\* returned are those of one of its immutable states.
C18_ImmutableWins ==
  \A op \in SameScaleOps :
    (\E st \in StatesOfOp(op) : st.immutable) =>
      \E st \in StatesOfOp(op) : st.immutable /\ Decision(op) = st.params

\* witness: a same-scale operation has an immutable state and a mutable
\* state that holds params no immutable state of the operation holds
C18_Witness ==
  /\ pc = "propagate"
  /\ \E op \in SameScaleOps :
       /\ \E st \in StatesOfOp(op) : st.immutable
       /\ \E mu \in StatesOfOp(op) :
            /\ ~mu.immutable /\ ~IsEmptyParams(mu.params)
            /\ \A st \in StatesOfOp(op) : st.immutable => st.params # mu.params

\* in the driver as it is now, the decision for op is empty iff all the
\* states of op are empty
EmptyIffNoParams(op) ==
  IsEmptyParams(Decision(op)) <=> \A st \in StatesOfOp(op) : IsEmptyParams(st.params)

Broadcasts == Processed # 0 /\ graph.ops[Processed].same_scale
              /\ ~IsEmptyParams(Decision(Processed))

\* the fixed output range of the operation is assigned to all its results
\* after the broadcast, lines 794-807
FixedActive(op) ==
  graph.ops[op].has_fixed /\ cfg.infer_tensor_range /\ ~cfg.is_qdq_conversion

\* the history lg has a call of fn for (op, index) with params p
Called(lg, fn, op, index, p) ==
  \E k \in 1..Len(lg) : /\ lg[k].fn = fn /\ lg[k].op = op /\ lg[k].index = index
                        /\ lg[k].params = p /\ ~lg[k].override

\* C20: when the loop processes a same-scale operation with a decision P,
\* SetOperandParams is called with P for exactly the operands of float
\* element type and SetResultParams with P for exactly the results of float
\* element type; the state and the requantize list of an operand or result
\* of another type are the same after the step (for a result, when no fixed
\* output range is assigned in the same iteration).
C20_BroadcastFloatOnly ==
  [][Broadcasts =>
       LET op == Processed
           P == Decision(op)
       IN /\ \A i \in 1..Len(graph.ops[op].operands) :
               LET si == operand_states[Use(op, i)]
               IN IF IsFloatTensor(ValueType(graph, graph.ops[op].operands[i]))
                  THEN Called(log', "SetOperandParams", op, i, P)
                  ELSE /\ \A k \in 1..Len(log') :
                            ~(log'[k].fn = "SetOperandParams" /\ log'[k].index = i)
                       /\ states'[si] = states[si]
                       /\ rescale_states'[si] = rescale_states[si]
          /\ \A i \in 1..Len(graph.ops[op].rtypes) :
               LET si == result_states[Use(op, i)]
               IN IF IsFloatTensor(ValueType(graph, Res(op, i)))
                  THEN Called(log', "SetResultParams", op, i, P)
                  ELSE FixedActive(op) \/
                       /\ \A k \in 1..Len(log') :
                            ~(log'[k].fn = "SetResultParams" /\ log'[k].index = i)
                       /\ states'[si] = states[si]
                       /\ rescale_states'[si] = rescale_states[si]]_vars

\* the operands and the results of op that are not float tensors
NonFloatOperands(op) ==
  {i \in 1..Len(graph.ops[op].operands) :
     ~IsFloatTensor(ValueType(graph, graph.ops[op].operands[i]))}
NonFloatResults(op) ==
  {i \in 1..Len(graph.ops[op].rtypes) : ~IsFloatTensor(ValueType(graph, Res(op, i)))}

\* witness: the last iteration broadcast params that differ from those a
\* non-float operand holds: the float operand and the float result were
\* assigned, the non-float operand and result were not
C20_Witness ==
  /\ pc = "propagate"
  /\ \E op \in SameScaleOps \cap quantized_ :
       /\ NonFloatOperands(op) # {} /\ NonFloatResults(op) # {}
       /\ \E e \in Assignments : e.fn = "SetOperandParams" /\ e.op = op
       /\ \E e \in Assignments :
            /\ e.fn = "SetResultParams" /\ e.op = op /\ e.ret
            /\ \A i \in NonFloatOperands(op) :
                 states[operand_states[Use(op, i)]].params # e.params

(***************************************************************************)
(* C21.  What the broadcast of a same-scale decision leaves behind.        *)
(***************************************************************************)
\* the requantize list rs asks for params p at position pos for the user u
Requested(rs, p, pos, u) ==
  \E j \in 1..Len(rs) : rs[j].params = p /\ rs[j].pos = pos
                        /\ \E k \in 1..Len(rs[j].users) : rs[j].users[k] = u

\* the requantize list rs asks for params p behind the producer
RequestedAfterProducer(rs, p) ==
  \E j \in 1..Len(rs) : rs[j].params = p /\ rs[j].pos = "ON_INPUT"

RequestedFor(rs, p, u) ==
  \E j \in 1..Len(rs) : /\ rs[j].params = p
                        /\ \E k \in 1..Len(rs[j].users) : rs[j].users[k] = u

\* the entries of rs' that ask for p behind the producer and list the user u
\* were in rs, asking for p behind the producer, before the step
JoinedOnly(rs0, rs1, p, u) ==
  \A j \in 1..Len(rs1) :
    (/\ rs1[j].params = p /\ rs1[j].pos = "ON_INPUT"
     /\ \E k \in 1..Len(rs1[j].users) : rs1[j].users[k] = u)
      => (j <= Len(rs0) /\ rs0[j].params = p /\ rs0[j].pos = "ON_INPUT")

C21_PlainCase ==
  /\ pc = "propagate"
  /\ \E e \in Assignments :
       /\ e.fn = "SetOperandParams" /\ IsConflict(e) /\ Created(e)
       /\ graph.ops[e.op].same_scale
  /\ \E e \in Assignments :
       /\ e.fn = "SetResultParams" /\ IsConflict(e) /\ Created(e)
       /\ graph.ops[e.op].same_scale /\ e.params = Head(log).params

(***************************************************************************)
(* C22.  The visit that defers a same-scale operation.                     *)
(***************************************************************************)
\* the loop processes a same-scale operation next and there is no decision
Defers == Processed # 0 /\ graph.ops[Processed].same_scale
          /\ IsEmptyParams(Decision(Processed))

\* C22: the iteration that finds no decision for a same-scale operation
\* takes the operation out of the visited set, pops it, and changes nothing
\* else: no state, no requantize list, no assignment is made (neither the
\* fixed output range nor a bias is assigned), the graph and `changed` stay.
C22_DeferralFrame ==
  [][Defers =>
       /\ quantized_' = quantized_ \ {Processed}
       /\ work_list' = SubSeq(work_list, 1, Len(work_list) - 1)
       /\ states' = states
       /\ rescale_states' = rescale_states
       /\ log' = <<>>
       /\ graph' = graph
       /\ changed' = changed]_vars

\* witness: a same-scale operation that has a fixed output range, in a run
\* that assigns fixed output ranges, was deferred by the last iteration and
\* its results are still empty
C22_Witness ==
  /\ pc = "propagate" /\ loop.iters > 0 /\ log = <<>>
  /\ \E op \in SameScaleOps \ quantized_ :
       /\ FixedActive(op)
       /\ \A st \in StatesOfOp(op) : IsEmptyParams(st.params)
       /\ \A k \in 1..Len(work_list) : work_list[k] # op

(***************************************************************************)
(* C23.  A deferred operation and the later assignments to its states.     *)
(***************************************************************************)
\* the loop has ended
LoopEnded == pc = "propagate" /\ work_list = <<>>

\* the same-scale operations without biases that the loop left deferred: an
\* operation of this kind that is processed while one of its states holds
\* params stays in the visited set (C19), so every state of a deferred one
\* that holds params received them after the last visit of the operation
LeftDeferred == {op \in SameScaleOps : BiasDecls(op) = {} /\ op \notin quantized_}

Queued(wl) == {wl[k] : k \in 1..Len(wl)}

\* the other uses of the Value that the operand position u reads
OtherUses(u) ==
  {graph.uses[OperandValue(u)][k] : k \in 1..Len(graph.uses[OperandValue(u)])} \ {u}

Skips == pc = "propagate" /\ work_list # <<>>
         /\ work_list[Len(work_list)] \in quantized_

\* C24: an operation that a visit of the loop left decided is in the
\* visited set and is not processed again; the iteration that dequeues an
\* operation of the visited set pops it and changes nothing else, and makes
\* no assignment.
C24_VisitedOnce ==
  [][/\ loop.decided \subseteq quantized_
     /\ loop'.decided \subseteq quantized_'
     /\ (pc = "propagate" /\ work_list # <<>>
         /\ work_list[Len(work_list)] \in loop.decided) => Skips
     /\ Skips =>
          /\ work_list' = SubSeq(work_list, 1, Len(work_list) - 1)
          /\ log' = <<>>
          /\ UNCHANGED <<graph, states, value_to_state, operand_states, result_states,
                         arg_states, rescale_states, quantized_, weights_,
                         optimized_weights_, args_, changed, pc>>
          /\ loop'.decided = loop.decided /\ loop'.deferred = loop.deferred]_vars

\* witness: no operation was deferred, and the loop has run more iterations
\* than there are operations it processed: an iteration dequeued an
\* operation of the visited set whose states hold params
C24_Witness ==
  /\ LoopEnded
  /\ loop.deferred = {}
  /\ loop.iters > Cardinality(loop.decided)
  /\ \E op \in SameScaleOps \cap loop.decided :
       \A st \in StatesOfOp(op) : ~IsEmptyParams(st.params)

(***************************************************************************)
(* C25.  The work list and the state maps after Initialize.                *)
(***************************************************************************)
\* Initialize has returned and the loop has not started
Initialized == pc = "propagate" /\ loop.iters = 0

\* how many times op is on the work list
Occurrences(wl, op) == Cardinality({k \in 1..Len(wl) : wl[k] = op})

\* C25: after Initialize each operation of the function that is quantizable
\* or has the same-scale requirement is on the work list once, no other
\* operation is on it, and every operand and result of an operation on it
\* has an index of a state.
C25_InitialWorkList ==
  Initialized =>
    /\ \A op \in 1..Len(graph.ops) :
         Occurrences(work_list, op) =
           IF graph.ops[op].quantizable \/ graph.ops[op].same_scale THEN 1 ELSE 0
    /\ \A op \in Queued(work_list) :
         /\ op \in 1..Len(graph.ops)
         /\ \A i \in 1..Len(graph.ops[op].operands) :
              /\ Use(op, i) \in DOMAIN operand_states
              /\ operand_states[Use(op, i)] \in 1..Len(states)
         /\ \A i \in 1..Len(graph.ops[op].rtypes) :
              /\ Use(op, i) \in DOMAIN result_states
              /\ result_states[Use(op, i)] \in 1..Len(states)

\* witness: after Initialize the work list holds a same-scale operation that
\* is not quantizable, next to operations that are not on it
C25_Witness ==
  /\ Initialized
  /\ \E op \in Queued(work_list) :
       graph.ops[op].same_scale /\ ~graph.ops[op].quantizable
  /\ \E op \in 1..Len(graph.ops) : op \notin Queued(work_list)

(***************************************************************************)
(* C26.  The constant branch of the loop (lines 749-759).                  *)
(***************************************************************************)
\* the constant the next iteration of the loop processes, 0 if there is none
ConstantVisited ==
  IF pc = "propagate" /\ work_list # <<>>
  THEN LET op == work_list[Len(work_list)]
       IN IF op \notin quantized_ /\ IsConstantOp(graph, op) THEN op ELSE 0
  ELSE 0

\* the assignment of the params inferred from the content of constant c
ContentInferred(e, c) ==
  /\ e.fn = "SetResultParams" /\ e.op = c /\ e.index = 1
  /\ e.params = graph.ops[c].content.wp

\* C26: the visit of a constant makes at most one assignment, that of the
\* params inferred from its content to its result, and makes it only when
\* range inference is requested, the constant is in weights_ and its result
\* state is empty; the constant stays in the visited set, so none of the
\* same-scale, fixed-range and bias steps runs for it (no other assignment
\* is made, whatever its specs declare); and the visit of a constant that
\* is not a weight changes no state and no list of requantize requests.
C26_ConstantStep ==
  [][ConstantVisited # 0 =>
       LET c == ConstantVisited
       IN /\ \A k \in 1..Len(log') :
               /\ k = 1
               /\ ContentInferred(log'[k], c)
               /\ cfg.infer_tensor_range
               /\ c \in weights_
               /\ IsEmptyParams(states[result_states[Use(c, 1)]].params)
          /\ c \in quantized_'
          /\ (log' = <<>> \/ c \notin weights_) =>
               /\ states' = states
               /\ rescale_states' = rescale_states
               /\ work_list' = SubSeq(work_list, 1, Len(work_list) - 1)
          /\ graph' = graph]_vars

\* witness: the visit of a weight stored the params inferred from its
\* content in its empty result state
C26_Witness ==
  /\ pc = "propagate" /\ Len(log) = 1
  /\ IsConstantOp(graph, log[1].op)
  /\ ContentInferred(log[1], log[1].op)
  /\ log[1].op \in weights_
  /\ IsEmptyParams(log[1].before) /\ log[1].after = log[1].params

\* also reached: a constant that is not a weight, and whose content has
\* params to infer, has been visited and its state is still empty; and a
\* constant whose scale spec declares a fixed output range has been visited
C26_NotAWeight ==
  /\ pc = "propagate" /\ cfg.infer_tensor_range
  /\ \E c \in quantized_ :
       /\ IsConstantOp(graph, c) /\ c \notin weights_
       /\ ~IsEmptyParams(graph.ops[c].content.wp)
       /\ IsEmptyParams(states[result_states[Use(c, 1)]].params)

C26_FixedRangeConstant ==
  /\ pc = "propagate" /\ cfg.infer_tensor_range /\ ~cfg.is_qdq_conversion
  /\ \E c \in quantized_ : IsConstantOp(graph, c) /\ graph.ops[c].has_fixed

(***************************************************************************)
(* C27.  Which constants PreprocessConstantOps records in weights_.        *)
(***************************************************************************)
\* a driver that has just been constructed on the function
Constructed == pc = "start" /\ run = 1

\* the float constants of the function, and the uses of one of them
FloatConstants ==
  {c \in 1..Len(graph.ops) : IsConstantOp(graph, c) /\ graph.ops[c].rtypes[1].e = "f"}
UsesOfConstant(c) == {graph.uses[Res(c, 1)][k] : k \in 1..Len(graph.uses[Res(c, 1)])}

\* the use is weight-like: the user does not declare that operand index as
\* a bias, has no same-scale requirement and is not a quantize op
WeightLike(u) ==
  /\ \A j \in 1..Len(graph.ops[u.op].biases) : graph.ops[u.op].biases[j].b # u.idx
  /\ ~graph.ops[u.op].same_scale
  /\ graph.ops[u.op].kind # "q"

\* the first element of the content is finite (line 472)
FirstFinite(c) ==
  Len(graph.ops[c].content.fin) = 0 \/ graph.ops[c].content.fin[1]

\* what Initialize does to constant c: it is in weights_ exactly when one of
\* its uses is weight-like, and each weight-like use still reads c
ClassifiedByUses(c) ==
  /\ c \in weights_' <=> \E u \in UsesOfConstant(c) : WeightLike(u)
  /\ \A u \in UsesOfConstant(c) :
       WeightLike(u) => graph'.ops[u.op].operands[u.idx] = Res(c, 1)

\* C27 as stated: Initialize records a float constant in weights_ exactly
\* when one of its uses is weight-like, and a weight-like use still reads
\* the constant itself afterwards.
C27_WeightIffWeightLikeUse ==
  [][Constructed => \A c \in FloatConstants : ClassifiedByUses(c)]_vars

\* C27 amended: the same for the float constants that pass the finiteness
\* test on their first element; the others are never in weights_; and
\* weights_ holds nothing but constants of the function as it was.
C27_FiniteWeightIffWeightLikeUse ==
  [][Constructed =>
       /\ \A c \in FloatConstants :
            IF FirstFinite(c) THEN ClassifiedByUses(c) ELSE c \notin weights_'
       /\ weights_' \subseteq FloatConstants]_vars

\* witness: Initialize has run on a function with a finite float constant
\* that has a weight-like use and a use that is not, and with a float
\* constant that has no weight-like use; the first is in weights_ and the
\* second is not
C27_Witness ==
  /\ pc = "propagate" /\ phases = <<"Initialize">> /\ loop.iters = 0
  /\ \E c \in 1..Len(graph0.ops) :
       /\ IsConstantOp(graph0, c) /\ graph0.ops[c].content.fin[1]
       /\ Len(graph0.uses[Res(c, 1)]) = 2
       /\ c \in weights_
       /\ \E k \in 1..2 :
            LET u == graph0.uses[Res(c, 1)][k]
            IN graph0.ops[u.op].same_scale \/ graph0.ops[u.op].kind = "q"
                 \/ \E j \in 1..Len(graph0.ops[u.op].biases) :
                      graph0.ops[u.op].biases[j].b = u.idx
  /\ \E c \in 1..Len(graph0.ops) :
       /\ IsConstantOp(graph0, c) /\ graph0.ops[c].content.fin[1]
       /\ graph0.uses[Res(c, 1)] # <<>>
       /\ c \notin weights_

(***************************************************************************)
(* C28.  Constants with non-finite content.                                *)
(***************************************************************************)
\* the constants of g whose content has an element that is not finite, at
\* any position, and those whose first element is not finite
NonFinite(g) ==
  {c \in 1..Len(g.ops) :
     /\ IsConstantOp(g, c) /\ g.ops[c].rtypes[1].e = "f"
     /\ \E k \in 1..Len(g.ops[c].content.fin) : ~g.ops[c].content.fin[k]}
FirstNonFinite(g) ==
  {c \in NonFinite(g) : ~g.ops[c].content.fin[1]}

\* none of the constants cs is in weights_; right after the first Initialize
\* each of them has the uses it had in the function the driver was
\* constructed on; and no assignment of the loop gives one of them the
\* params inferred from its content
Excluded(cs) ==
  /\ weights_ \cap cs = {}
  /\ (Initialized /\ phases = <<"Initialize">>) =>
        \A c \in cs \cap NonFinite(graph0) :
           graph.uses[Res(c, 1)] = graph0.uses[Res(c, 1)]
  /\ pc = "propagate" =>
        \A k \in 1..Len(log) :
           ~(log[k].op \in cs /\ ContentInferred(log[k], log[k].op))

\* C28: a float constant whose content has a non-finite element, at any
\* position, is never recorded as a weight, is never duplicated by the
\* preprocessor and never receives the params inferred from its content.
C28_NonFiniteExcluded == Excluded(NonFinite(graph))

\* what the code guarantees: the same for the float constants whose first
\* element is not finite
C28_FirstNonFiniteExcluded == Excluded(FirstNonFinite(graph))

\* reached: a constant whose first element is not finite, with a
\* weight-like use and a second use, has been visited by the loop with
\* range inference on
C28_FirstNonFiniteVisited ==
  /\ pc = "propagate" /\ cfg.infer_tensor_range
  /\ \E c \in FirstNonFinite(graph) \cap quantized_ :
       /\ Len(graph.uses[Res(c, 1)]) = 2
       /\ \E u \in UsesOfConstant(c) : WeightLike(u)

(***************************************************************************)
(* C29.  When PreprocessConstantOps duplicates a constant.                 *)
(***************************************************************************)
\* after Initialize use u of constant c reads another value: a duplicate
DuplicatedFor(c, u) == graph'.ops[u.op].operands[u.idx] # Res(c, 1)

\* the uses of the float constants that read a duplicate after Initialize
DuplicatedUses ==
  {cu \in {<<c, u>> : c \in FloatConstants, u \in UNION {UsesOfConstant(c) : c \in FloatConstants}} :
     cu[2] \in UsesOfConstant(cu[1]) /\ DuplicatedFor(cu[1], cu[2])}

\* C29 as stated: a use of a float constant reads a duplicate only when the
\* constant has more than one use, the use is propagated and another use of
\* the constant is weight-like.
C29_DuplicateNeedsWeightRole ==
  [][Constructed =>
       \A c \in FloatConstants : \A u \in UsesOfConstant(c) :
          DuplicatedFor(c, u) =>
            /\ Len(graph.uses[Res(c, 1)]) > 1
            /\ ~WeightLike(u)
            /\ \E w \in UsesOfConstant(c) \ {u} : WeightLike(w)]_vars

\* C29 amended: a use of a float constant reads a duplicate only when the
\* constant has more than one use and the use is propagated, whatever the
\* other uses are; every such use of a constant that passes the finiteness
\* test reads a duplicate of its own, with the content of the constant; and
\* Initialize creates no other operation.
C29_DuplicateForSharedPropagatedUse ==
  [][Constructed =>
       /\ \A c \in FloatConstants : \A u \in UsesOfConstant(c) :
            /\ DuplicatedFor(c, u) <=>
                 /\ Len(graph.uses[Res(c, 1)]) > 1
                 /\ ~WeightLike(u)
                 /\ FirstFinite(c)
            /\ DuplicatedFor(c, u) =>
                 LET n == FeedsAfter(u)
                 IN /\ n > Len(graph.ops)
                    /\ graph'.ops[n] = graph.ops[c]
                    /\ graph'.uses[Res(n, 1)] = <<u>>
       /\ Len(graph'.ops) = Len(graph.ops) + Cardinality(DuplicatedUses)]_vars

\* witness: Initialize has run on a function with a float constant that had
\* two uses, none of them weight-like, and each of the two now reads a
\* duplicate; the constant itself is left without a use
C29_Witness ==
  /\ Initialized /\ phases = <<"Initialize">>
  /\ \E c \in 1..Len(graph0.ops) :
       /\ IsConstantOp(graph0, c)
       /\ Len(graph0.uses[Res(c, 1)]) = 2
       /\ graph.uses[Res(c, 1)] = <<>>
       /\ c \notin weights_
       /\ \A k \in 1..2 :
            LET u == graph0.uses[Res(c, 1)][k]
            IN /\ graph0.ops[u.op].same_scale
                    \/ \E j \in 1..Len(graph0.ops[u.op].biases) :
                         graph0.ops[u.op].biases[j].b = u.idx
               /\ graph.ops[u.op].operands[u.idx].o > Len(graph0.ops)

\* also reached: constants with a single use and constants whose two uses
\* are both weight-like went through Initialize, and no operation was created
C29_NotDuplicated ==
  /\ Initialized /\ phases = <<"Initialize">>
  /\ Len(graph.ops) = Len(graph0.ops)
  /\ \E c \in weights_ : Len(graph0.uses[Res(c, 1)]) = 2
  /\ \E c \in 1..Len(graph0.ops) :
       IsConstantOp(graph0, c) /\ c \notin weights_ /\ Len(graph0.uses[Res(c, 1)]) = 1

(***************************************************************************)
(* C30.  The fixed output range (lines 792-807).                           *)
(***************************************************************************)
\* the calls of SetResultParams for result i in the history lg
ResultCalls(lg, i) ==
  {k \in 1..Len(lg) : lg[k].fn = "SetResultParams" /\ lg[k].index = i}

\* the last of a non-empty set of positions
Last(ks) == CHOOSE k \in ks : \A j \in ks : j <= k

\* the number of calls the broadcast of a same-scale decision makes for
\* result i of op
BroadcastCalls(op, i) ==
  IF graph.ops[op].same_scale /\ IsFloatTensor(ValueType(graph, Res(op, i)))
  THEN 1 ELSE 0

\* the iteration reaches line 794 for op with the three conditions true and
\* params to assign
FixedRangeApplies(op) ==
  /\ graph.ops[op].has_fixed /\ cfg.infer_tensor_range /\ ~cfg.is_qdq_conversion
  /\ ~IsEmptyParams(graph.ops[op].fixed)
  /\ graph.ops[op].same_scale => ~IsEmptyParams(Decision(op))

\* C30: the fixed output range is assigned only to the results of an
\* operation that declares one, with range inference requested and outside
\* qdq conversion mode; every result then gets one SetResultParams call with
\* the fixed params, after those of the same-scale step: a result that holds
\* them is left alone, an empty state stores them, a state with other params
\* gets a new requantize state ON_INPUT with the fixed params and no user.
\* In every other case the iteration makes no call of SetResultParams but
\* those of the same-scale step.
C30_FixedRangeStep ==
  [][Processed # 0 =>
       LET op == Processed
           fixed == graph.ops[op].fixed
           deferred == graph.ops[op].same_scale /\ IsEmptyParams(Decision(op))
       IN \A i \in 1..Len(graph.ops[op].rtypes) :
            LET ks == ResultCalls(log', i)
                si == result_states[Use(op, i)]
            IN IF FixedRangeApplies(op)
               THEN /\ Cardinality(ks) = BroadcastCalls(op, i) + 1
                    /\ LET e == log'[Last(ks)]
                       IN /\ e.op = op /\ e.params = fixed /\ e.si = si
                          /\ e.before = fixed => ~e.ret /\ e.same
                          /\ IsEmptyParams(e.before) =>
                               e.after = fixed /\ e.resc_same
                          /\ (~IsEmptyParams(e.before) /\ e.before # fixed) =>
                               /\ e.after = e.before
                               /\ Created(e)
                               /\ NewRequantize(e).pos = "ON_INPUT"
                               /\ NewRequantize(e).params = fixed
                               /\ NewRequantize(e).users = <<>>
                               /\ SubSeq(e.resc_after, 1, Len(e.resc_before)) = e.resc_before
               ELSE Cardinality(ks) = IF deferred THEN 0 ELSE BroadcastCalls(op, i)]_vars

\* witness: the fixed params of an operation have been stored in the empty
\* state of its result, and in the same run a result that held other params
\* got a requantize state for the fixed params
C30_Witness ==
  /\ pc = "propagate" /\ cfg.infer_tensor_range /\ ~cfg.is_qdq_conversion
  /\ \E k \in 1..Len(log) :
       /\ log[k].fn = "SetResultParams" /\ graph.ops[log[k].op].has_fixed
       /\ log[k].params = graph.ops[log[k].op].fixed
       /\ ~graph.ops[log[k].op].same_scale
       /\ IsEmptyParams(log[k].before) /\ log[k].after = log[k].params
  /\ \E si \in 1..Len(rescale_states) : \E j \in 1..Len(rescale_states[si]) :
       rescale_states[si][j].pos = "ON_INPUT" /\ rescale_states[si][j].params = PF

\* also reached: the fixed params met a result that held other params, in
\* the iteration that has just run
C30_Conflict ==
  /\ pc = "propagate"
  /\ \E k \in 1..Len(log) :
       /\ log[k].fn = "SetResultParams" /\ graph.ops[log[k].op].has_fixed
       /\ log[k].params = graph.ops[log[k].op].fixed
       /\ ~IsEmptyParams(log[k].before) /\ log[k].before # log[k].params
       /\ Created(log[k])

\* also reached: in qdq conversion mode an operation with a fixed output
\* range has been processed to a decision and its result state is empty
C30_QdqMode ==
  /\ pc = "propagate" /\ cfg.is_qdq_conversion
  /\ \E op \in loop.decided :
       /\ graph.ops[op].has_fixed /\ ~IsConstantOp(graph, op)
       /\ \E i \in 1..Len(graph.ops[op].rtypes) :
            IsEmptyParams(states[result_states[Use(op, i)]].params)

(***************************************************************************)
(* C31.  A bias whose state holds params when its operation is processed.  *)
(***************************************************************************)
\* the state index of operand i of op
OperandState(op, i) == operand_states[Use(op, i)]

\* the loop processes op next, op is not a same-scale operation (the bias
\* loop is then the only step that assigns operands), op declares the bias
\* bd and the state of that bias operand holds params
BiasReused(op, bd) ==
  /\ op = Processed
  /\ ~graph.ops[op].same_scale
  /\ bd \in BiasDecls(op)
  /\ ~IsEmptyParams(states[OperandState(op, bd.b)].params)

\* the biases of op that this visit solves: the state is empty and the
\* accumulator scale function has params for it
SolvedNow(op) ==
  {bd \in BiasDecls(op) :
     /\ IsEmptyParams(states[OperandState(op, bd.b)].params)
     /\ ~IsEmptyParams(Proposal(op, bd))}

\* the elements of a sequence as a set
Elems(sq) == {sq[k] : k \in 1..Len(sq)}

\* C31: when the state of a bias operand holds params as its operation is
\* processed, every assignment the visit makes to that operand carries the
\* params the state holds (not a value solved from the non-bias operands)
\* and returns false; after the visit the state holds the same params and
\* the same list of requantize states; and the non-bias operands paired
\* with the bias (the filter among them) are the same Values with the same
\* states and lists, unless another bias of the operation that shares one
\* of them is solved in the same visit.
C31_BiasReuse ==
  [][\A op \in 1..Len(graph.ops) : \A bd \in BiasDecls(op) :
       BiasReused(op, bd) =>
         LET si == OperandState(op, bd.b)
         IN /\ \A k \in 1..Len(log') :
                  (log'[k].fn = "SetOperandParams" /\ log'[k].index = bd.b) =>
                     /\ log'[k].params = states[si].params
                     /\ ~log'[k].ret
            /\ operand_states'[Use(op, bd.b)] = si
            /\ states'[si] = states[si]
            /\ rescale_states'[si] = rescale_states[si]
            /\ (\A other \in SolvedNow(op) : Elems(other.nb) \cap Elems(bd.nb) = {}) =>
                 \A x \in Elems(bd.nb) :
                    /\ graph'.ops[op].operands[x] = graph.ops[op].operands[x]
                    /\ operand_states'[Use(op, x)] = OperandState(op, x)
                    /\ states'[OperandState(op, x)] = states[OperandState(op, x)]
                    /\ rescale_states'[OperandState(op, x)]
                         = rescale_states[OperandState(op, x)]]_vars

\* witness: in the first Propagate an operation has been processed again
\* after one of its biases was solved with the overflow guard: the visit
\* called SetOperandParams for that bias with the params its state held, and
\* solved another bias
C31_Witness ==
  /\ pc = "propagate" /\ phases = <<"Initialize">>
  /\ \E k1, k2 \in 1..Len(log) :
       /\ log[k1].fn = "SetOperandParams" /\ log[k2].fn = "SetOperandParams"
       /\ log[k1].op = log[k2].op /\ log[k1].index # log[k2].index
       /\ log[k1].index \in BiasIndices(graph.ops[log[k1].op])
       /\ log[k2].index \in BiasIndices(graph.ops[log[k1].op])
       /\ ~IsEmptyParams(log[k1].before) /\ log[k1].params = log[k1].before
       /\ ScaleIs(log[k1].params, 1, kBiasMax)
       /\ IsEmptyParams(log[k2].before) /\ log[k2].after = log[k2].params

\* also reached: a bias that an existing quantize op had settled, with
\* 8-bit params that no accumulator scale function returns, has been met by
\* a visit that left its state and its list as they were
C31_SettledBias ==
  /\ pc = "propagate" /\ phases = <<"Initialize">>
  /\ \E k \in 1..Len(log) :
       /\ log[k].fn = "SetOperandParams"
       /\ log[k].index \in BiasIndices(graph.ops[log[k].op])
       /\ log[k].immutable /\ log[k].params = log[k].before /\ log[k].same
       /\ log[k].params.w = 8

(***************************************************************************)
(* C32.  A bias whose params cannot be determined (lines 811-816).         *)
(***************************************************************************)
\* the loop processes op next, op is not a same-scale operation, op declares
\* the bias bd, the state of that operand is empty and the accumulator
\* scale function has no params for it
BiasUndetermined(op, bd) ==
  /\ op = Processed
  /\ ~graph.ops[op].same_scale
  /\ bd \in BiasDecls(op)
  /\ IsEmptyParams(states[OperandState(op, bd.b)].params)
  /\ IsEmptyParams(Proposal(op, bd))

\* C32: when no params can be determined for a bias operand, the visit
\* leaves the operation out of the visited set, makes no assignment to the
\* bias operand, and leaves its state (empty) and its list of requantize
\* states as they were.
C32_BiasDeferral ==
  [][\A op \in 1..Len(graph.ops) : \A bd \in BiasDecls(op) :
       BiasUndetermined(op, bd) =>
         LET si == OperandState(op, bd.b)
         IN /\ op \notin quantized_'
            /\ op \in loop'.deferred
            /\ \A k \in 1..Len(log') :
                 ~(log'[k].fn = "SetOperandParams" /\ log'[k].index = bd.b)
            /\ operand_states'[Use(op, bd.b)] = si
            /\ states'[si] = states[si]
            /\ IsEmptyParams(states'[si].params)
            /\ rescale_states'[si] = rescale_states[si]]_vars

\* witness: a visit has solved one bias of an operation and found no params
\* for another: the operation is out of the visited set, the state of the
\* second bias is empty and that of the first holds the params just stored
C32_Witness ==
  /\ pc = "propagate"
  /\ \E k \in 1..Len(log) :
       LET op == log[k].op
       IN /\ log[k].fn = "SetOperandParams"
          /\ log[k].index \in BiasIndices(graph.ops[op])
          /\ IsEmptyParams(log[k].before) /\ log[k].after = log[k].params
          /\ op \notin quantized_ /\ op \in loop.deferred
          /\ \E bd \in BiasDecls(op) :
               /\ bd.b # log[k].index
               /\ IsEmptyParams(states[operand_states[Use(op, bd.b)]].params)
               /\ \A j \in 1..Len(log) : log[j].index # bd.b

(***************************************************************************)
(* C33.  The overflow guard on a filter constant that is shared.           *)
(***************************************************************************)
\* the guard is about to adjust filter operand f of op (the bias bd
\* overflows, input x), and the constant that feeds f has another use
SharedFilterAdjusted(op, bd, f, x) ==
  /\ Overflows(op, bd, Proposal(op, bd))
  /\ AffineCase(op, bd, Proposal(op, bd), f, x)
  /\ Len(graph.uses[graph.ops[op].operands[f]]) > 1

\* C33: when the guard adjusts the scale of a filter constant that has more
\* than one use, a new constant with the same attributes is created and
\* becomes operand f of the operation, its only use; the operand gets a new
\* state, empty when the adjusted params are assigned to it, which then
\* holds new_bias_scale / input_scale; and the original constant keeps its
\* other uses, its state index, the params of its state and its list of
\* requantize states.
C33_SharedFilterDuplicated ==
  [][\A op \in 1..Len(graph.ops) : \A bd \in BiasDecls(op) :
        \A f \in 1..Len(graph.ops[op].operands) : \A x \in 1..Len(graph.ops[op].operands) :
       SharedFilterAdjusted(op, bd, f, x) =>
         LET old == graph.ops[op].operands[f]
             new == Res(Len(graph.ops) + 1, 1)
             si == OperandState(op, f)
             fresh == Len(states) + 1
         IN /\ Len(graph'.ops) = Len(graph.ops) + 1
            /\ graph'.ops[new.o] = graph.ops[old.o]
            /\ graph'.ops[op].operands[f] = new
            /\ graph'.uses[new] = <<Use(op, f)>>
            /\ operand_states'[Use(op, f)] = fresh
            /\ result_states'[Use(new.o, 1)] = fresh
            /\ value_to_state'[new] = fresh
            /\ Len(states') = fresh
            /\ FilterAdjusted(op, bd, f, x)
            /\ \E k \in 1..Len(log') :
                 /\ log'[k].fn = "SetOperandParams" /\ log'[k].index = f
                 /\ log'[k].override /\ log'[k].si = fresh
                 /\ IsEmptyParams(log'[k].before)
            /\ value_to_state'[old] = si
            /\ states'[si] = states[si]
            /\ rescale_states'[si] = rescale_states[si]
            /\ \A u \in Elems(graph.uses[old]) \ {Use(op, f)} :
                 /\ graph'.ops[u.op].operands[u.idx] = old
                 /\ u \in Elems(graph'.uses[old])
                 /\ u \in DOMAIN operand_states =>
                      operand_states'[u] = operand_states[u]]_vars

\* witness: the guard has just adjusted the filter of an operation whose
\* filter constant had a second weight-like use: the function has one more
\* constant than after Initialize, the overriding assignment met an empty
\* state, and the original constant still has its other use and its params
C33_Witness ==
  /\ pc = "propagate" /\ phases = <<"Initialize">>
  /\ Len(graph.ops) = Len(graph0.ops) + 1
  /\ \E k \in 1..Len(log) :
       /\ log[k].fn = "SetOperandParams" /\ log[k].override
       /\ IsEmptyParams(log[k].before) /\ log[k].after = log[k].params
       /\ log[k].si = Len(states)
       /\ LET old == graph0.ops[log[k].op].operands[log[k].index]
          IN /\ Len(graph0.uses[old]) = 2
             /\ Len(graph.uses[old]) = 1
             /\ ~IsEmptyParams(states[value_to_state[old]].params)
             /\ states[value_to_state[old]].params # log[k].after

(***************************************************************************)
(* C34.  The quantize / dequantize pair Finalize inserts for a Value whose *)
(* state received params.                                                  *)
(***************************************************************************)
\* Finalize runs next
Finalizing == pc = "finalize"

\* the operations Finalize creates
NewOps == (Len(graph.ops) + 1)..Len(graph'.ops)

\* the arguments and the operation results of the function, those that
\* have a state, and those Finalize visits: args_ and the keys of
\* result_states_
AllValues ==
  {Arg(i) : i \in 1..Len(graph.args)}
    \cup {Res(o, i) : o \in 1..Len(graph.ops), i \in 1..2}
ValuesWithState == AllValues \cap DOMAIN value_to_state
Visited == Elems(args_) \cup {Res(k.op, k.idx) : k \in DOMAIN result_states}

\* the state index Finalize reads for a Value it visits
FinalIndex(v) == IF v.k = "arg" THEN arg_states[v] ELSE result_states[Use(v.o, v.i)]

\* the Value carried no params before propagation and its state holds params
Received(si) == ~states[si].immutable /\ ~IsEmptyParams(states[si].params)

\* the position of an operation in the block after Finalize
PosAfterFinalize(o) == IndexOf(graph'.order, o)

\* Finalize has given v the pair q, dq: q is a new volatile quantize op of
\* type p that reads v and is its only use, dq a new dequantize op that
\* reads q and directly follows it, every former use of v reads dq, and
\* between the production of v (the start of the block for an argument) and
\* q there are only operations Finalize created
PairInserted(v, p, q, dq) ==
  /\ graph'.ops[q].kind = "q" /\ graph'.ops[q].volatile
  /\ graph'.ops[q].operands = <<v>> /\ graph'.ops[q].rtypes = <<TQ(p)>>
  /\ graph'.uses[v] = <<Use(q, 1)>>
  /\ graph'.ops[dq].kind = "dq" /\ graph'.ops[dq].operands = <<Res(q, 1)>>
  /\ graph'.uses[Res(q, 1)] = <<Use(dq, 1)>>
  /\ PosAfterFinalize(dq) = PosAfterFinalize(q) + 1
  /\ \A u \in Elems(graph.uses[v]) : graph'.ops[u.op].operands[u.idx] = Res(dq, 1)
  /\ \A o \in 1..Len(graph.ops) :
       PosAfterFinalize(o) < PosAfterFinalize(q) =>
         v.k = "res" /\ PosAfterFinalize(o) <= PosAfterFinalize(v.o)
  /\ v.k = "res" => PosAfterFinalize(v.o) < PosAfterFinalize(q)

\* the new volatile quantize ops
VolatileQuantizes == {n \in NewOps : graph'.ops[n].kind = "q" /\ graph'.ops[n].volatile}

\* C34 as stated: every argument and operation result whose state is not
\* immutable and holds params when Finalize runs gets exactly one pair; a
\* Value whose state is immutable gets none.
C34_EveryReceivedValuePaired ==
  [][Finalizing =>
       /\ \A v \in ValuesWithState :
            Received(value_to_state[v]) =>
              \E q, dq \in NewOps : PairInserted(v, states[value_to_state[v]].params, q, dq)
       /\ Cardinality(VolatileQuantizes)
            = Cardinality({v \in ValuesWithState : Received(value_to_state[v])})]_vars

\* C34 amended: the Values Finalize visits are the arguments and the results
\* of the registered operations; each of them whose state is not immutable
\* and holds params gets one new volatile quantize op, and no other
\* volatile quantize op is created; when no requantize state is pending on
\* the Value, the pair is as described.
C34_VisitedValuePairedUnlessPending ==
  [][Finalizing =>
       /\ \A v \in Visited :
            (Received(FinalIndex(v)) /\ rescale_states[FinalIndex(v)] = <<>>) =>
              \E q, dq \in NewOps : PairInserted(v, states[FinalIndex(v)].params, q, dq)
       /\ Cardinality(VolatileQuantizes)
            = Cardinality({v \in Visited : Received(FinalIndex(v))})
       /\ \A v \in Visited : \A q \in VolatileQuantizes :
            states[FinalIndex(v)].immutable => graph'.ops[q].operands # <<v>>]_vars

\* witness: Finalize has run on a function in which an argument and the
\* result of an operation had received params and a third Value carried
\* params from the start; the function has two new volatile quantize ops
C34_Witness ==
  /\ pc = "done" /\ phases = <<"Initialize", "Propagate", "Finalize">>
  /\ \E a \in Elems(args_) : Received(arg_states[a]) /\ rescale_states[arg_states[a]] = <<>>
  /\ \E k \in DOMAIN result_states :
       Received(result_states[k]) /\ rescale_states[result_states[k]] = <<>>
  /\ \E si \in 1..Len(states) : states[si].immutable
  /\ Cardinality({n \in 1..Len(graph.ops) : graph.ops[n].kind = "q" /\ graph.ops[n].volatile}) >= 2

\* reached: Finalize has run and the result of an operation that was not
\* registered holds params in its state and is still read by its consumer
C34_UnregisteredResult ==
  /\ pc = "done"
  /\ \E v \in DOMAIN value_to_state :
       /\ v.k = "res" /\ Use(v.o, v.i) \notin DOMAIN result_states
       /\ Received(value_to_state[v])
       /\ \A u \in Elems(graph.uses[v]) : graph.ops[u.op].kind # "q"

(***************************************************************************)
(* C35.  Requests of different positions on one Value.                     *)
(***************************************************************************)
\* the requantize states pending on the state si do not all have the
\* same position
PositionsDisagree(si) ==
  \E a, b \in Elems(rescale_states[si]) : a.pos # b.pos

\* the quantize ops Finalize creates for a request: not tagged volatile
NewRequantizeOps == {n \in NewOps : graph'.ops[n].kind = "q" /\ ~graph'.ops[n].volatile}

\* n reads v, or reads the result of a quantize op that reads v
ReadsThrough(n, v) ==
  \/ graph'.ops[n].operands = <<v>>
  \/ \E q \in 1..Len(graph'.ops) :
       /\ graph'.ops[q].kind = "q" /\ graph'.ops[q].operands = <<v>>
       /\ graph'.ops[n].operands = <<Res(q, 1)>>

\* every former consumer of v reads v, or the dequantize op of the pair
\* inserted for v
ConsumersKept(v) ==
  \A u \in Elems(graph.uses[v]) :
    LET now == graph'.ops[u.op].operands[u.idx]
    IN \/ now = v
       \/ /\ Received(FinalIndex(v))
          /\ \E q, dq \in NewOps :
               /\ PairInserted(v, states[FinalIndex(v)].params, q, dq)
               /\ now = Res(dq, 1)

\* C35: for every Value Finalize visits whose pending requantize states do
\* not all have the same position, Finalize creates no requantize op that
\* reads the Value (directly or through its quantize op) and leaves every
\* consumer reading what it reads without the requests.
C35_PositionDisagreement ==
  [][Finalizing =>
       \A v \in Visited :
         PositionsDisagree(FinalIndex(v)) =>
           /\ \A n \in NewRequantizeOps : ~ReadsThrough(n, v)
           /\ ConsumersKept(v)]_vars

\* witness: Finalize has run with an after-producer and a before-consumer
\* request pending on the result of an operation
C35_Witness ==
  /\ pc = "done" /\ phases = <<"Initialize", "Propagate", "Finalize">>
  /\ \E k \in DOMAIN result_states :
       /\ PositionsDisagree(result_states[k])
       /\ Received(result_states[k])

\* RequantizeArg has no test of the positions; the requests pending on an
\* argument are all before-consumer requests
C35_ArgumentsAgree ==
  \A a \in DOMAIN arg_states :
    \A r \in Elems(rescale_states[arg_states[a]]) : r.pos = "ON_OUTPUT"

(***************************************************************************)
(* C36.  Materialization of before-consumer requests.                      *)
(***************************************************************************)
\* the requests pending on state si are all before-consumer requests
BeforeConsumerOnly(si) ==
  /\ rescale_states[si] # <<>>
  /\ \A r \in Elems(rescale_states[si]) : r.pos = "ON_OUTPUT"

\* q is a quantize op that reads v; for a Value that carried params it is
\* there before Finalize, otherwise it is the one of the pair
QuantizesValue(q, v) ==
  /\ q \in 1..Len(graph'.ops)
  /\ graph'.ops[q].kind = "q"
  /\ graph'.ops[q].operands = <<v>>

\* the (operation, operand-index) pairs that consume v before Finalize:
\* through the existing pair when v carried params
ConsumersOf(v) ==
  IF states[FinalIndex(v)].immutable
    THEN UNION {Elems(graph.uses[Res(d, 1)]) :
                  d \in {d \in 1..Len(graph.ops) :
                           /\ graph.ops[d].kind = "dq"
                           /\ \E q \in 1..Len(graph.ops) :
                                /\ graph.ops[q].kind = "q"
                                /\ graph.ops[q].operands = <<v>>
                                /\ graph.ops[d].operands = <<Res(q, 1)>>}}
    ELSE Elems(graph.uses[v])

\* the users recorded in the requests of state si
RecordedUsers(si) == UNION {Elems(r.users) : r \in Elems(rescale_states[si])}

\* after Finalize the user u reads v in its original params: a dequantize op
\* that reads the quantize op of v
ReadsOriginal(u, v) ==
  \E d \in 1..Len(graph'.ops) : \E q \in 1..Len(graph'.ops) :
    /\ graph'.ops[u.op].operands[u.idx] = Res(d, 1)
    /\ graph'.ops[d].kind = "dq"
    /\ graph'.ops[d].operands = <<Res(q, 1)>>
    /\ QuantizesValue(q, v)

\* after Finalize the user u reads v converted to the params t: a
\* dequantize op that reads a new quantize op of type t that reads the
\* quantize op of v
ReadsConverted(u, v, t) ==
  \E d \in 1..Len(graph'.ops) : \E n \in NewRequantizeOps : \E q \in 1..Len(graph'.ops) :
    /\ graph'.ops[u.op].operands[u.idx] = Res(d, 1)
    /\ graph'.ops[d].kind = "dq"
    /\ graph'.ops[d].operands = <<Res(n, 1)>>
    /\ graph'.ops[n].rtypes = <<TQ(t)>>
    /\ graph'.ops[n].operands = <<Res(q, 1)>>
    /\ QuantizesValue(q, v)

\* the dequantize op that read the quantize op of v when the requests were
\* materialized reads something else after Finalize
ReboundIn(g, v) ==
  \E q \in 1..Len(g.ops) :
    /\ g.ops[q].kind = "q" /\ g.ops[q].operands = <<v>>
    /\ \A d \in 1..Len(g.ops) :
         g.ops[d].kind = "dq" => g.ops[d].operands # <<Res(q, 1)>>
FirstDequantizeRebound(v) == ReboundIn(graph', v)

\* C36: for every Value Finalize visits on which only before-consumer
\* requests are pending, after Finalize every user recorded in a request
\* reads the Value converted to the target of that request, every consumer
\* that is recorded in no request reads the Value in its original params,
\* and the dequantize op of the Value is rebound only when every consumer
\* is recorded.
C36_BeforeConsumer ==
  [][Finalizing =>
       \A v \in Visited :
         BeforeConsumerOnly(FinalIndex(v)) =>
           /\ \A r \in Elems(rescale_states[FinalIndex(v)]) :
                \A u \in Elems(r.users) : ReadsConverted(u, v, r.params)
           /\ \A u \in ConsumersOf(v) \ RecordedUsers(FinalIndex(v)) :
                ReadsOriginal(u, v)
           /\ FirstDequantizeRebound(v) =>
                ConsumersOf(v) \subseteq RecordedUsers(FinalIndex(v))]_vars

\* witness: Finalize has run on a Value with two before-consumer requests
\* that is also read by a consumer recorded in neither
C36_Witness ==
  /\ pc = "done" /\ phases = <<"Initialize", "Propagate", "Finalize">>
  /\ \E a \in DOMAIN arg_states :
       /\ BeforeConsumerOnly(arg_states[a]) /\ Len(rescale_states[arg_states[a]]) = 2
       /\ Elems(graph0.uses[a]) \ RecordedUsers(arg_states[a]) # {}

\* reached as well: Finalize has rebound the dequantize op of an argument
\* whose consumers are all recorded
C36_Rebound ==
  /\ pc = "done" /\ phases = <<"Initialize", "Propagate", "Finalize">>
  /\ \E a \in DOMAIN arg_states :
       /\ BeforeConsumerOnly(arg_states[a])
       /\ ReboundIn(graph, a)

(***************************************************************************)
(* C37.  After-producer requests per Value.                                *)
(***************************************************************************)
\* the after-producer requests pending on state si
AfterProducer(si) ==
  {j \in 1..Len(rescale_states[si]) : rescale_states[si][j].pos = "ON_INPUT"}

\* C37 as stated: the requantize list of a Value holds at most one
\* after-producer request.
C37_AtMostOneAfterProducer ==
  \A si \in 1..Len(states) : Cardinality(AfterProducer(si)) <= 1

\* reached: Finalize has run with two after-producer requests for different
\* params pending on the result of an operation, and the function holds no
\* quantize op of the type of the second request that reads the result
C37_SecondRequestLost ==
  /\ pc = "done" /\ phases = <<"Initialize", "Propagate", "Finalize">>
  /\ \E k \in DOMAIN result_states :
       LET rs == rescale_states[result_states[k]]
       IN /\ Len(rs) = 2 /\ rs[1].pos = "ON_INPUT" /\ rs[2].pos = "ON_INPUT"
          /\ rs[1].params # rs[2].params
          /\ \E n \in 1..Len(graph.ops) :
               /\ graph.ops[n].kind = "q" /\ graph.ops[n].rtypes = <<TQ(rs[1].params)>>
               /\ graph.ops[n].operands = <<Res(k.op, k.idx)>>
          /\ \A n \in 1..Len(graph.ops) :
               graph.ops[n].kind = "q" => graph.ops[n].rtypes # <<TQ(rs[2].params)>>

(***************************************************************************)
(* C38.  Before-consumer requests are merged by target.                    *)
(***************************************************************************)
\* the before-consumer requests of the list rs have pairwise different
\* targets, and none has the target p
DistinctTargets(rs, p) ==
  /\ \A i, j \in 1..Len(rs) :
       (i # j /\ rs[i].pos = "ON_OUTPUT" /\ rs[j].pos = "ON_OUTPUT") =>
         rs[i].params # rs[j].params
  /\ \A i \in 1..Len(rs) : rs[i].pos = "ON_OUTPUT" => rs[i].params # p

\* the first request of rs with target p, 0 if there is none
QueuedTarget(rs, p) ==
  IF \E j \in 1..Len(rs) : rs[j].params = p
    THEN CHOOSE j \in 1..Len(rs) :
           rs[j].params = p /\ \A i \in 1..(j - 1) : rs[i].params # p
    ELSE 0

\* the call e of SetOperandParams met a nonempty state with other params,
\* without override, and its target was queued already
JoinsQueued(e) ==
  /\ e.fn = "SetOperandParams" /\ ~e.override
  /\ ~IsEmptyParams(e.before) /\ e.before # e.params
  /\ QueuedTarget(e.resc_before, e.params) # 0

\* C38: in every state of the loop and after every call of SetOperandParams,
\* the before-consumer requests queued on one state have pairwise different
\* targets, none equal to the stored params; a call that conflicts on a
\* target that is queued already stores nothing and only appends its
\* (operation, operand-index) to the users of that request.
C38_MergedByTarget ==
  /\ \A si \in 1..Len(states) : DistinctTargets(rescale_states[si], states[si].params)
  /\ \A i \in 1..Len(log) :
       LET e == log[i]
           j == QueuedTarget(e.resc_before, e.params)
       IN /\ e.fn = "SetOperandParams" => DistinctTargets(e.resc_after, e.after)
          /\ JoinsQueued(e) =>
               /\ e.after = e.before
               /\ e.resc_after =
                    [e.resc_before EXCEPT ![j].users = Append(@, Use(e.op, e.index))]

\* witness: a call of SetOperandParams has joined a queued before-consumer
\* request
C38_Witness ==
  \E i \in 1..Len(log) :
    /\ JoinsQueued(log[i])
    /\ log[i].resc_before[QueuedTarget(log[i].resc_before, log[i].params)].pos = "ON_OUTPUT"

(***************************************************************************)
(* C39.  The value returned by PropagateParamsAndReturnIfChanged.          *)
(***************************************************************************)
\* since the call began, the params of a state were set or a requantize
\* list was modified: the lists are empty and states is states0 when the
\* call begins
ModifiedSinceCall ==
  \/ \E si \in 1..Len(states0) : states[si].params # states0[si].params
  \/ \E si \in 1..Len(rescale_states) : rescale_states[si] # <<>>

\* the loop has ended and the call is about to return `changed`
Returning == pc = "propagate" /\ work_list = <<>>

\* C39: at every point of the loop, and so when the call returns, `changed`
\* is true if and only if the call has set the params of a state or has
\* modified a requantize list.
C39_ReturnValue ==
  pc = "propagate" => (changed <=> ModifiedSinceCall)

\* witness: the call returns true after a step that only queued a request
C39_Witness ==
  /\ Returning /\ changed
  /\ \E i \in 1..Len(log) : ~log[i].resc_same /\ log[i].before = log[i].after

\* reached as well: the call returns false after a loop in which every
\* operation was deferred or met equal params
C39_ReturnsFalse ==
  /\ Returning /\ ~changed
  /\ loop.iters > 0 /\ loop.deferred # {}

(***************************************************************************)
(* C40.  Consistency of the state store.                                   *)
(***************************************************************************)
\* the indices stored in the map f
Indices(f) == {f[k] : k \in DOMAIN f}

\* C40: in every state of a run the Value-to-index map is injective, every
\* index stored in the Value, operand, result and argument maps is the
\* index of a record of states_, and the number of records is the number of
\* Values registered.
C40_StateStoreConsistent ==
  /\ \A v, w \in DOMAIN value_to_state :
       value_to_state[v] = value_to_state[w] => v = w
  /\ Indices(value_to_state) \cup Indices(operand_states)
       \cup Indices(result_states) \cup Indices(arg_states) \subseteq 1..Len(states)
  /\ Len(states) = Cardinality(DOMAIN value_to_state)

\* witness: the loop has duplicated a constant during a bias adjustment and
\* registered the duplicate, and an argument shares the record of the
\* output of its quantize op
C40_Witness ==
  /\ pc = "propagate" /\ states0 # <<>>
  /\ Len(states) > Len(states0)
  /\ \E a \in DOMAIN arg_states : a \notin DOMAIN value_to_state

====
